---------------------------- MODULE Spec2Model ----------------------------
(***************************************************************************)
(* A model of the emlang grammar validator (package parser): Parse and the *)
(* recursive descent below it, over the generic YAML node tree that the    *)
(* yaml.v3 decoder hands to it.                                             *)
(*                                                                         *)
(* Strings are sequences of one-character strings, so that TrimSpace,      *)
(* HasSuffix and ParseSwimlane are computed character by character.        *)
(* Go maps are functions; a pointer to a Slice is the field addr, the      *)
(* place of the parseSlice call that allocated the object.                 *)
(***************************************************************************)
EXTENDS Integers, Sequences, FiniteSets, TLC

\* ------------------------------------------------------------------ bounds

\* longest type-key value (element name text) that is enumerated
MaxNameLen == 5
\* most keys of one element mapping
MaxElemKeys == 2
\* most keys of one extended slice mapping
MaxSliceKeys == 2
\* most entries of one slices mapping
MaxSlices == 2
\* most items of one test section
MaxSecElems == 2
\* most keys of one test mapping
MaxTestKeys == 3
\* most items of one element list of a slice
MaxElems == 2
\* most physical documents of one source
MaxDocs == 3
MaxRuns == 2
MaxLaneElems == 2
\* the longest list of steps of the linted slices
MaxLintElems == 3

\* ----------------------------------------------------------------- strings

Chars == {"a", "/", " "}

kSlices == <<"s", "l", "i", "c", "e", "s">>
kSteps == <<"s", "t", "e", "p", "s">>
kTests == <<"t", "e", "s", "t", "s">>
kGiven == <<"g", "i", "v", "e", "n">>
kWhen == <<"w", "h", "e", "n">>
kThen == <<"t", "h", "e", "n">>
kProps == <<"p", "r", "o", "p", "s">>
\* a key that no grammar position recognises
kOther == <<"z">>

ElementTrigger == "trigger"
ElementCommand == "command"
ElementEvent == "event"
ElementException == "exception"
ElementView == "view"

ElementTypes ==
    {ElementTrigger, ElementCommand, ElementEvent, ElementException, ElementView}

\* elementPrefixes maps YAML keys to element types.
elementPrefixes ==
    (<<"t">> :> ElementTrigger) @@ (<<"t", "r", "g">> :> ElementTrigger)
    @@ (<<"t", "r", "i", "g", "g", "e", "r">> :> ElementTrigger)
    @@ (<<"c">> :> ElementCommand) @@ (<<"c", "m", "d">> :> ElementCommand)
    @@ (<<"c", "o", "m", "m", "a", "n", "d">> :> ElementCommand)
    @@ (<<"e">> :> ElementEvent) @@ (<<"e", "v", "t">> :> ElementEvent)
    @@ (<<"e", "v", "e", "n", "t">> :> ElementEvent)
    @@ (<<"x">> :> ElementException) @@ (<<"e", "r", "r">> :> ElementException)
    @@ (<<"e", "x", "c", "e", "p", "t", "i", "o", "n">> :> ElementException)
    @@ (<<"v">> :> ElementView) @@ (<<"v", "i", "e", "w">> :> ElementView)

\* unicode.IsSpace restricted to the alphabet
IsSpace(c) == c = " "

RECURSIVE TrimLeft(_)
TrimLeft(s) ==
    IF s # <<>> /\ IsSpace(Head(s)) THEN TrimLeft(Tail(s)) ELSE s

RECURSIVE TrimRight(_)
TrimRight(s) ==
    IF s # <<>> /\ IsSpace(s[Len(s)])
    THEN TrimRight(SubSeq(s, 1, Len(s) - 1))
    ELSE s

\* strings.TrimSpace
TrimSpace(s) == TrimRight(TrimLeft(s))

\* strings.HasSuffix(s, suffix) for a one-character suffix
HasSuffix(s, c) == Len(s) > 0 /\ s[Len(s)] = c

\* ------------------------------------------------------------ yaml.Node

DocumentNode == "DocumentNode"
SequenceNode == "SequenceNode"
MappingNode == "MappingNode"
ScalarNode == "ScalarNode"
AliasNode == "AliasNode"
\* what Decode leaves in root when the document has a syntax error
InvalidYAML == "InvalidYAML"

\* A node: Kind, Tag, Value, Line and Content as in yaml.Node.  The target of
\* an alias node (yaml.Node.Alias) is held as its only Content entry.
Node(kind, tag, value, content) ==
    [Kind |-> kind, Tag |-> tag, Value |-> value, Line |-> 0, Content |-> content]

NScalar(v) == Node(ScalarNode, "!!str", v, <<>>)
NNull == Node(ScalarNode, "!!null", <<>>, <<>>)
NSeq(items) == Node(SequenceNode, "!!seq", <<>>, items)
NMap(pairs) == Node(MappingNode, "!!map", <<>>, pairs)
NAlias(target) == Node(AliasNode, "", <<"r">>, <<target>>)
NDoc(content) == Node(DocumentNode, "", <<>>, content)
NInvalid == Node(InvalidYAML, "", <<>>, <<>>)

\* isNullNode returns true if the node represents a YAML null value.
isNullNode(node) == node.Kind = ScalarNode /\ node.Tag = "!!null"

\* ---------------------------------------------------------------- errors

\* An error value: the message of the innermost fmt.Errorf, the prefixes
\* wrapped around it, and the line its text carries (located = FALSE when
\* the text names no line).
NoErr == [msg |-> "", ctx |-> <<>>, located |-> FALSE, line |-> 0]
Errorf(msg, line) == [msg |-> msg, ctx |-> <<>>, located |-> TRUE, line |-> line]
ErrorfNoLine(msg) == [msg |-> msg, ctx |-> <<>>, located |-> FALSE, line |-> 0]
Wrap(prefix, e) == [e EXCEPT !.ctx = <<prefix>> \o @]

EmptyMap == [x \in {} |-> x]

\* the number of key/value pairs of a mapping node, and its i-th key and value
NPairs(node) == Len(node.Content) \div 2
KeyAt(node, i) == node.Content[2 * i - 1]
ValueAt(node, i) == node.Content[2 * i]

\* ------------------------------------------------------------- elements

\* ast.Element (Column is not modelled).  addr stands for the pointer to the
\* object: parseElement makes a new object per call, and the objects of one
\* list are told apart by their place in it.
NewElement(line) ==
    [Type |-> ElementTrigger, Name |-> <<>>, Swimlane |-> <<>>,
     Props |-> <<>>, Line |-> line, addr |-> 0]

\* ParseSwimlane splitting at the last '/' instead of the first.
ParseSwimlaneAtLastSlash(e) ==
    LET at == {i \in 1..Len(e.Name) : e.Name[i] = "/"}
    IN  IF at = {} THEN e
        ELSE LET i == CHOOSE k \in at : \A j \in at : k >= j
             IN  [e EXCEPT !.Swimlane = SubSeq(e.Name, 1, i - 1),
                           !.Name = SubSeq(e.Name, i + 1, Len(e.Name))]

\* ParseSwimlane extracts swimlane from element name if present.
ParseSwimlane(e) ==
    LET at == {i \in 1..Len(e.Name) : e.Name[i] = "/"}
    IN  IF at = {} THEN e
        ELSE LET i == CHOOSE k \in at : \A j \in at : k <= j
             IN  [e EXCEPT !.Swimlane = SubSeq(e.Name, 1, i - 1),
                           !.Name = SubSeq(e.Name, i + 1, Len(e.Name))]

\* parseProps parses the props field, preserving source order.  A value is
\* decoded to the text of its node.
parseProps(node) ==
    IF node.Kind # MappingNode
    THEN [val |-> <<>>, err |-> Errorf("props must be a mapping", node.Line)]
    ELSE [val |-> [i \in 1..NPairs(node) |->
                      [Key |-> KeyAt(node, i).Value, Value |-> ValueAt(node, i).Value]],
          err |-> NoErr]

\* The state of the key loop of parseElement is st = [elem, foundType, err].
\* parseElement, key "props": props is what parseProps returned.
setProps(st, props) ==
    IF props.err # NoErr THEN [st EXCEPT !.err = Wrap("props", props.err)]
    ELSE [st EXCEPT !.elem.Props = props.val]

\* parseElement, a type key: the check after ParseSwimlane and the two
\* TrimSpace calls, e the element they leave.
checkSwimlane(keyNode, st, e) ==
    IF e.Swimlane # <<>> /\ e.Name = <<>>
    THEN [st EXCEPT !.err =
             Errorf("element has empty name after swimlane", keyNode.Line)]
    ELSE [st EXCEPT !.elem = e, !.foundType = TRUE]

\* elem.Swimlane = strings.TrimSpace(elem.Swimlane); elem.Name likewise
trimParts(e) ==
    [e EXCEPT !.Swimlane = TrimSpace(e.Swimlane), !.Name = TrimSpace(e.Name)]

\* checkName without the check for a trailing '/'.
checkNameNoSuffixCheck(keyNode, st, elemType, name) ==
    IF name = <<>>
    THEN [st EXCEPT !.err = Errorf("element has no name", keyNode.Line)]
    ELSE checkSwimlane(keyNode, st,
             trimParts(ParseSwimlane([st.elem EXCEPT !.Type = elemType,
                                                     !.Name = name])))

\* parseElement, a type key: the checks on elem.Name, the trimmed value.
checkName(keyNode, st, elemType, name) ==
    IF name = <<>>
    THEN [st EXCEPT !.err = Errorf("element has no name", keyNode.Line)]
    ELSE IF HasSuffix(name, "/")
    THEN [st EXCEPT !.err =
             Errorf("element name must not end with '/'", keyNode.Line)]
    ELSE checkSwimlane(keyNode, st,
             trimParts(ParseSwimlane([st.elem EXCEPT !.Type = elemType,
                                                     !.Name = name])))

\* parseTypeKey that takes a second type key like the first.
parseTypeKeyNoFoundCheck(node, keyNode, valueNode, elemType, st) ==
    checkName(keyNode, st, elemType, TrimSpace(valueNode.Value))

\* parseTypeKey that does not trim the value before the checks.
parseTypeKeyUntrimmed(node, keyNode, valueNode, elemType, st) ==
    IF st.foundType
    THEN [st EXCEPT !.err = Errorf("element has multiple type keys", node.Line)]
    ELSE checkName(keyNode, st, elemType, valueNode.Value)

\* parseElement, a key that elementPrefixes maps to elemType.
parseTypeKey(node, keyNode, valueNode, elemType, st) ==
    IF st.foundType
    THEN [st EXCEPT !.err = Errorf("element has multiple type keys", node.Line)]
    ELSE checkName(keyNode, st, elemType, TrimSpace(valueNode.Value))

\* One round of the key loop of parseElement.
parseElementKey(node, keyNode, valueNode, st) ==
    IF keyNode.Value = kProps THEN setProps(st, parseProps(valueNode))
    ELSE IF keyNode.Value \in DOMAIN elementPrefixes
    THEN parseTypeKey(node, keyNode, valueNode, elementPrefixes[keyNode.Value], st)
    ELSE [st EXCEPT !.err = Errorf("unknown key", keyNode.Line)]

\* The key loop of parseElement from pair i on.
RECURSIVE parseElementKeys(_, _, _)
parseElementKeys(node, i, st) ==
    IF i > NPairs(node) \/ st.err # NoErr THEN st
    ELSE parseElementKeys(node, i + 1,
             parseElementKey(node, KeyAt(node, i), ValueAt(node, i), st))

\* parseElement after its key loop.
elementResult(node, st) ==
    IF st.err # NoErr THEN [val |-> NewElement(0), err |-> st.err]
    ELSE IF ~st.foundType
    THEN [val |-> NewElement(0), err |-> Errorf("element missing type", node.Line)]
    ELSE [val |-> st.elem, err |-> NoErr]

\* parseElement once an alias is resolved.
parseElementNode(node) ==
    IF node.Kind # MappingNode
    THEN [val |-> NewElement(0), err |-> Errorf("element must be a mapping", node.Line)]
    ELSE elementResult(node,
             parseElementKeys(node, 1,
                 [elem |-> NewElement(node.Line), foundType |-> FALSE, err |-> NoErr]))

\* parseElement parses a single element.
parseElement(item) ==
    parseElementNode(IF item.Kind = AliasNode THEN item.Content[1] ELSE item)

\* parseElementList: elements = append(elements, elem), or the error; st is
\* [val, err] and r what parseElement returned.
appendElement(st, r) ==
    IF r.err # NoErr THEN [val |-> <<>>, err |-> r.err]
    ELSE [val |-> Append(st.val, [r.val EXCEPT !.addr = Len(st.val) + 1]),
          err |-> NoErr]

\* The item loop of parseElementList from item i on.
RECURSIVE parseElementItems(_, _, _)
parseElementItems(node, i, st) ==
    IF i > Len(node.Content) \/ st.err # NoErr THEN st
    ELSE parseElementItems(node, i + 1,
             appendElement(st, parseElement(node.Content[i])))

\* parseElementList parses a sequence of elements.
parseElementList(node) ==
    IF node.Kind # SequenceNode
    THEN [val |-> <<>>, err |-> Errorf("expected sequence", node.Line)]
    ELSE parseElementItems(node, 1, [val |-> <<>>, err |-> NoErr])

\* ------------------------------------------------------------------ tests

\* ast.Test
NewTest(name) ==
    [Name |-> name, Given |-> <<>>, When |-> <<>>, Then |-> <<>>,
     HasGiven |-> FALSE, HasWhen |-> FALSE, HasThen |-> FALSE]

allowedGiven == {ElementEvent, ElementView}
\* allowedWhen that lets an Event into when.
allowedWhenWithEvent == {ElementCommand, ElementEvent}
allowedWhen == {ElementCommand}
allowedThen == {ElementEvent, ElementView, ElementException}

\* parseTestSection after parseElementList returned r: the first element
\* whose type is not allowed is the error.
checkAllowed(section, allowed, r) ==
    IF r.err # NoErr THEN [val |-> <<>>, err |-> Wrap(section, r.err)]
    ELSE IF \E i \in 1..Len(r.val) : r.val[i].Type \notin allowed
    THEN [val |-> <<>>,
          err |-> Wrap(section,
                     Errorf("not allowed",
                            r.val[CHOOSE i \in 1..Len(r.val) :
                                     /\ r.val[i].Type \notin allowed
                                     /\ \A j \in 1..(i - 1) :
                                            r.val[j].Type \in allowed].Line))]
    ELSE r

\* parseTestSection parses a given/when/then section, validating element types.
parseTestSection(section, node, allowed) ==
    IF isNullNode(node) THEN [val |-> <<>>, err |-> NoErr]
    ELSE checkAllowed(section, allowed, parseElementList(node))

\* setSection that sets a flag only when the section has elements.
setSectionFlagIfElements(key, st, r) ==
    IF r.err # NoErr THEN [st EXCEPT !.err = r.err]
    ELSE IF key = kGiven
    THEN [st EXCEPT !.test.HasGiven = Len(r.val) > 0, !.test.Given = r.val]
    ELSE IF key = kWhen
    THEN [st EXCEPT !.test.HasWhen = Len(r.val) > 0, !.test.When = r.val]
    ELSE [st EXCEPT !.test.HasThen = Len(r.val) > 0, !.test.Then = r.val]

\* parseTest, cases "given", "when", "then": r is what parseTestSection
\* returned; st is [test, err].
setSection(key, st, r) ==
    IF r.err # NoErr THEN [st EXCEPT !.err = r.err]
    ELSE IF key = kGiven
    THEN [st EXCEPT !.test.HasGiven = TRUE, !.test.Given = r.val]
    ELSE IF key = kWhen
    THEN [st EXCEPT !.test.HasWhen = TRUE, !.test.When = r.val]
    ELSE [st EXCEPT !.test.HasThen = TRUE, !.test.Then = r.val]

\* the allowed types of a section
allowedIn(key) ==
    IF key = kGiven THEN allowedGiven
    ELSE IF key = kWhen THEN allowedWhen
    ELSE allowedThen

\* One round of the key loop of parseTest.
parseTestKey(keyNode, valueNode, st) ==
    IF keyNode.Value \in {kGiven, kWhen, kThen}
    THEN setSection(keyNode.Value, st,
             parseTestSection(keyNode.Value, valueNode, allowedIn(keyNode.Value)))
    ELSE [st EXCEPT !.err = Errorf("unknown test key", keyNode.Line)]

\* The key loop of parseTest from pair i on.
RECURSIVE parseTestKeys(_, _, _)
parseTestKeys(node, i, st) ==
    IF i > NPairs(node) \/ st.err # NoErr THEN st
    ELSE parseTestKeys(node, i + 1, parseTestKey(KeyAt(node, i), ValueAt(node, i), st))

\* parseTest after its key loop.
testResult(name, st) ==
    [val |-> IF st.err # NoErr THEN NewTest(name) ELSE st.test, err |-> st.err]

\* parseTest parses a single test definition.
parseTest(name, node) ==
    IF isNullNode(node) THEN [val |-> NewTest(name), err |-> NoErr]
    ELSE IF node.Kind # MappingNode
    THEN [val |-> NewTest(name), err |-> Errorf("test must be a mapping", node.Line)]
    ELSE testResult(name,
             parseTestKeys(node, 1, [test |-> NewTest(name), err |-> NoErr]))

\* parseTests: tests[testName] = test, or the error; st is [val, err] and r
\* what parseTest returned.
setTest(testName, st, r) ==
    IF r.err # NoErr THEN [val |-> EmptyMap, err |-> Wrap("test", r.err)]
    ELSE [val |-> (testName :> r.val) @@ st.val, err |-> NoErr]

\* The key loop of parseTests from pair i on.
RECURSIVE parseTestsKeys(_, _, _)
parseTestsKeys(node, i, st) ==
    IF i > NPairs(node) \/ st.err # NoErr THEN st
    ELSE parseTestsKeys(node, i + 1,
             setTest(KeyAt(node, i).Value, st,
                     parseTest(KeyAt(node, i).Value, ValueAt(node, i))))

\* parseTests parses tests attached to a slice.
parseTests(node) ==
    IF isNullNode(node) THEN [val |-> EmptyMap, err |-> NoErr]
    ELSE IF node.Kind # MappingNode
    THEN [val |-> EmptyMap, err |-> Errorf("tests must be a mapping", node.Line)]
    ELSE parseTestsKeys(node, 1, [val |-> EmptyMap, err |-> NoErr])

\* ----------------------------------------------------------------- slices

\* ast.Slice.  addr stands for the pointer to the object.  A nil Elements
\* list and an empty one are both <<>>; parseSlice tells them apart by the
\* flag ElementsNil.
NewSlice(name, addr) ==
    [Name |-> name, Elements |-> <<>>, ElementsNil |-> TRUE, Tests |-> EmptyMap,
     addr |-> addr]

\* parseSlice, case "steps" with a value that is not null: r is what
\* parseElementList returned; st is [slice, err].
setSteps(valueNode, st, r) ==
    IF r.err # NoErr THEN [st EXCEPT !.err = Wrap("steps", r.err)]
    ELSE IF Len(r.val) = 0
    THEN [st EXCEPT !.err =
             Errorf("steps must have at least one element", valueNode.Line)]
    ELSE [st EXCEPT !.slice.Elements = r.val, !.slice.ElementsNil = FALSE]

\* parseSlice, case "steps".
parseSteps(valueNode, st) ==
    IF isNullNode(valueNode)
    THEN [st EXCEPT !.slice.Elements = <<>>, !.slice.ElementsNil = FALSE]
    ELSE setSteps(valueNode, st, parseElementList(valueNode))

\* parseSlice, case "tests": r is what parseTests returned.
setTests(st, r) ==
    IF r.err # NoErr THEN [st EXCEPT !.err = Wrap("tests", r.err)]
    ELSE [st EXCEPT !.slice.Tests = r.val]

\* One round of the key loop of the extended form of parseSlice.
parseSliceKey(keyNode, valueNode, st) ==
    IF keyNode.Value = kSteps THEN parseSteps(valueNode, st)
    ELSE IF keyNode.Value = kTests THEN setTests(st, parseTests(valueNode))
    ELSE [st EXCEPT !.err = Errorf("unknown slice key", keyNode.Line)]

\* The key loop of the extended form of parseSlice from pair i on.
RECURSIVE parseSliceKeys(_, _, _)
parseSliceKeys(node, i, st) ==
    IF i > NPairs(node) \/ st.err # NoErr THEN st
    ELSE parseSliceKeys(node, i + 1,
             parseSliceKey(KeyAt(node, i), ValueAt(node, i), st))

\* extendedResult that does not ask for steps.
extendedResultNoStepsCheck(node, st) ==
    st

\* The mapping case of parseSlice after its key loop.
extendedResult(node, st) ==
    IF st.err # NoErr THEN st
    ELSE IF st.slice.ElementsNil
    THEN [st EXCEPT !.err = Errorf("extended slice must have 'steps'", node.Line)]
    ELSE st

\* directResult that takes an empty element list.
directResultAllowEmpty(node, st, r) ==
    IF r.err # NoErr THEN [st EXCEPT !.err = r.err]
    ELSE [st EXCEPT !.slice.Elements = r.val, !.slice.ElementsNil = FALSE]

\* The sequence case of parseSlice: r is what parseElementList returned.
directResult(node, st, r) ==
    IF r.err # NoErr THEN [st EXCEPT !.err = r.err]
    ELSE IF Len(r.val) = 0
    THEN [st EXCEPT !.err =
             Errorf("slice must have at least one element", node.Line)]
    ELSE [st EXCEPT !.slice.Elements = r.val, !.slice.ElementsNil = FALSE]

\* The body of parseSlice; st is [slice, err] with the new Slice.
parseSliceInto(node, st) ==
    IF isNullNode(node) THEN st
    ELSE IF node.Kind = SequenceNode
    THEN directResult(node, st, parseElementList(node))
    ELSE IF node.Kind = MappingNode
    THEN extendedResult(node, parseSliceKeys(node, 1, st))
    ELSE [st EXCEPT !.err =
             Errorf("slice must be a sequence or mapping", node.Line)]

\* parseSlice parses a single slice in direct or extended form.  The result
\* is [slice, err].
parseSlice(name, node, addr) ==
    parseSliceInto(node, [slice |-> NewSlice(name, addr), err |-> NoErr])

\* parseSlices: slices[sliceName] = slice and order = append(order,
\* sliceName), or the error; st is [slices, order, err] and r what
\* parseSlice returned.
setSlice(sliceName, st, r) ==
    IF r.err # NoErr
    THEN [slices |-> EmptyMap, order |-> <<>>, err |-> Wrap("slice", r.err)]
    ELSE [slices |-> (sliceName :> r.slice) @@ st.slices,
          order |-> Append(st.order, sliceName), err |-> NoErr]

\* The key loop of parseSlices from pair i on.  The slice of pair i is
\* allocated at site \o <<i>>.
RECURSIVE parseSlicesKeys(_, _, _, _)
parseSlicesKeys(node, site, i, st) ==
    IF i > NPairs(node) \/ st.err # NoErr THEN st
    ELSE parseSlicesKeys(node, site, i + 1,
             setSlice(KeyAt(node, i).Value, st,
                      parseSlice(KeyAt(node, i).Value, ValueAt(node, i),
                                 site \o <<i>>)))

\* parseSlices parses the slices section.
parseSlices(node, site) ==
    IF isNullNode(node) THEN [slices |-> EmptyMap, order |-> <<>>, err |-> NoErr]
    ELSE IF node.Kind # MappingNode
    THEN [slices |-> EmptyMap, order |-> <<>>,
          err |-> Errorf("slices must be a mapping", node.Line)]
    ELSE parseSlicesKeys(node, site, 1,
             [slices |-> EmptyMap, order |-> <<>>, err |-> NoErr])

\* -------------------------------------------------------------- documents

\* ast.SubDoc and ast.Document (RawSource is the variable input)
NewSubDoc == [Slices |-> EmptyMap, SliceOrder |-> <<>>]
NewDocument == [Slices |-> EmptyMap, SubDocs |-> <<>>]

\* mergeSlices that keeps the Slice a name already has in m.
RECURSIVE mergeSlicesFirstWins(_, _, _, _)
mergeSlicesFirstWins(m, slices, sliceOrder, i) ==
    IF i > Len(sliceOrder) THEN m
    ELSE mergeSlicesFirstWins(m @@ (sliceOrder[i] :> slices[sliceOrder[i]]),
                              slices, sliceOrder, i + 1)

\* The loop over sliceOrder in parseDocument, for either map m:
\* m[name] = slices[name] for every name of sliceOrder from the i-th on.
RECURSIVE mergeSlices(_, _, _, _)
mergeSlices(m, slices, sliceOrder, i) ==
    IF i > Len(sliceOrder) THEN m
    ELSE mergeSlices((sliceOrder[i] :> slices[sliceOrder[i]]) @@ m,
                     slices, sliceOrder, i + 1)

\* parseDocument, case "slices": r is what parseSlices returned; st is
\* [doc, subDoc, err].
setSlices(st, r) ==
    IF r.err # NoErr THEN [st EXCEPT !.err = r.err]
    ELSE [st EXCEPT !.doc.Slices = mergeSlices(@, r.slices, r.order, 1),
                    !.subDoc.Slices = mergeSlices(@, r.slices, r.order, 1),
                    !.subDoc.SliceOrder = r.order]

\* One round of the key loop of parseDocument.  The slices of pair i of
\* document d are allocated at the sites <<d, i, _>>.
parseDocumentKey(i, keyNode, valueNode, st) ==
    IF keyNode.Value = kSlices
    THEN setSlices(st, parseSlices(valueNode, <<Len(st.doc.SubDocs) + 1, i>>))
    ELSE [st EXCEPT !.err = Errorf("unknown top-level key", keyNode.Line)]

\* The key loop of parseDocument from pair i on.
RECURSIVE parseDocumentKeys(_, _, _)
parseDocumentKeys(docNode, i, st) ==
    IF i > NPairs(docNode) \/ st.err # NoErr THEN st
    ELSE parseDocumentKeys(docNode, i + 1,
             parseDocumentKey(i, KeyAt(docNode, i), ValueAt(docNode, i), st))

\* parseDocument parses a single YAML document node and merges slices into
\* doc.  The result is [doc, subDoc, err].
parseDocument(root, doc, subDoc) ==
    IF root.Kind # DocumentNode \/ Len(root.Content) = 0
    THEN [doc |-> doc, subDoc |-> subDoc, err |-> NoErr]
    ELSE IF root.Content[1].Kind # MappingNode
    THEN [doc |-> doc, subDoc |-> subDoc,
          err |-> ErrorfNoLine("expected mapping at root")]
    ELSE parseDocumentKeys(root.Content[1], 1,
             [doc |-> doc, subDoc |-> subDoc, err |-> NoErr])

\* Parse as one function of the documents the decoder yields, for a source
\* that is parsed again: the for loop of Parse from the i-th document on,
\* doc the Document so far.  The result is [isNil, doc, err].
RECURSIVE ParseFrom(_, _, _)
\* Parse after parseDocument returned r for the i-th document.
ParseNext(docs, i, r) ==
    IF r.err # NoErr
    THEN [isNil |-> TRUE, doc |-> NewDocument, err |-> r.err]
    ELSE ParseFrom(docs, i + 1, [r.doc EXCEPT !.SubDocs = Append(@, r.subDoc)])

ParseFrom(docs, i, d) ==
    IF i > Len(docs) THEN [isNil |-> FALSE, doc |-> d, err |-> NoErr]
    ELSE IF docs[i].Kind = InvalidYAML
    THEN [isNil |-> TRUE, doc |-> NewDocument,
          err |-> ErrorfNoLine("yaml parse error")]
    ELSE ParseNext(docs, i, parseDocument(docs[i], d, NewSubDoc))

\* Parse parses an Emlang YAML file from the reader.
Parse(docs) == ParseFrom(docs, 1, NewDocument)

\* ----------------------------------------------------------------- layout

\* the values of a list, as a set
Range(q) == {q[i] : i \in 1..Len(q)}

\* fmt.Sprintf("%d", n) for n >= 0
RECURSIVE Itoa(_)
Itoa(n) ==
    LET digit == <<"0", "1", "2", "3", "4", "5", "6", "7", "8", "9">>[(n % 10) + 1]
    IN  IF n < 10 THEN <<digit>> ELSE Itoa(n \div 10) \o <<digit>>

\* the number of hex characters contentHash keeps of the SHA-1 sum
HashLen == 12
emlangDocument ==
    <<"e", "m", "l", "a", "n", "g", "-", "d", "o", "c", "u", "m", "e", "n", "t", "-">>

\* documentID that leaves the index out.
documentIDWithoutIndex(hash, idx) ==
    emlangDocument \o hash

\* documentID returns the HTML id for a subdocument:
\* "emlang-document-<hash>-<idx>".
documentID(hash, idx) ==
    emlangDocument \o hash \o <<"-">> \o Itoa(idx)

\* computeLayout, first loop: w = len(slice.Elements), 1 if that is 0.
sliceWidth(slice) ==
    IF Len(slice.Elements) = 0 THEN 1 ELSE Len(slice.Elements)

\* l.sliceWidths[name] = w; totalWidth += w.  st is [widths, total].
addWidth(st, name, w) ==
    [widths |-> (name :> w) @@ st.widths, total |-> st.total + w]

\* The first loop of computeLayout from the i-th entry of SliceOrder on.
RECURSIVE widthLoop(_, _, _)
widthLoop(sd, i, st) ==
    IF i > Len(sd.SliceOrder) THEN st
    ELSE widthLoop(sd, i + 1,
             addWidth(st, sd.SliceOrder[i], sliceWidth(sd.Slices[sd.SliceOrder[i]])))

\* if !seen[lane] { seen[lane] = true; lanes = append(lanes, lane) }: the
\* lanes seen are the lanes of the list.
addLane(lanes, lane) ==
    IF lane \in Range(lanes) THEN lanes ELSE Append(lanes, lane)

\* scanType that takes the lane of a Command or View into the event lanes.
scanTypeLanesOfCommands(l, elem) ==
    IF elem.Type = ElementTrigger
    THEN [l EXCEPT !.triggerLanes = addLane(@, elem.Swimlane)]
    ELSE [l EXCEPT !.eventLanes = addLane(@, elem.Swimlane)]

\* computeLayout, the switch on elem.Type.
scanType(l, elem) ==
    IF elem.Type = ElementTrigger
    THEN [l EXCEPT !.triggerLanes = addLane(@, elem.Swimlane)]
    ELSE IF elem.Type \in {ElementCommand, ElementView}
    THEN [l EXCEPT !.hasMainRow = TRUE]
    ELSE IF elem.Type \in {ElementEvent, ElementException}
    THEN [l EXCEPT !.eventLanes = addLane(@, elem.Swimlane)]
    ELSE l

\* computeLayout, the body of the loop over slice.Elements.
scanElement(l, elem) ==
    scanType(IF elem.Swimlane # <<>> THEN [l EXCEPT !.hasSwimlanes = TRUE] ELSE l,
             elem)

\* The loop over slice.Elements from the i-th element on.
RECURSIVE scanElements(_, _, _)
scanElements(elems, i, l) ==
    IF i > Len(elems) THEN l
    ELSE scanElements(elems, i + 1, scanElement(l, elems[i]))

\* The second loop of computeLayout from the i-th entry of SliceOrder on.
RECURSIVE scanSlices(_, _, _)
scanSlices(sd, i, l) ==
    IF i > Len(sd.SliceOrder) THEN l
    ELSE scanSlices(sd, i + 1,
             scanElements(sd.Slices[sd.SliceOrder[i]].Elements, 1, l))

\* The loop that sets l.sliceStartCol from the i-th entry of SliceOrder on,
\* col the next free column.
RECURSIVE startLoop(_, _, _, _)
startLoop(order, i, col, l) ==
    IF i > Len(order) THEN l
    ELSE startLoop(order, i + 1, col + l.sliceWidths[order[i]],
             [l EXCEPT !.sliceStartCol = (order[i] :> col) @@ @])

\* The end of computeLayout: the swimlane column only when swimlanes are
\* present.
assignColumns(sd, l, totalWidth) ==
    IF l.hasSwimlanes
    THEN startLoop(sd.SliceOrder, 1, 2, [l EXCEPT !.totalColumns = 1 + totalWidth])
    ELSE startLoop(sd.SliceOrder, 1, 1, [l EXCEPT !.totalColumns = totalWidth])

\* The layout with the widths w of the first loop, before the scan.
newLayout(sd, w) ==
    [sliceOrder |-> sd.SliceOrder, sliceWidths |-> w.widths, totalColumns |-> 0,
     sliceStartCol |-> EmptyMap, triggerLanes |-> <<>>, eventLanes |-> <<>>,
     hasSwimlanes |-> FALSE, hasMainRow |-> FALSE]

\* computeLayout after the first loop returned w.
layoutWith(sd, w) ==
    assignColumns(sd, scanSlices(sd, 1, newLayout(sd, w)), w.total)

\* computeLayout
computeLayout(sd) ==
    layoutWith(sd, widthLoop(sd, 1, [widths |-> EmptyMap, total |-> 0]))

\* ElementType.String() is the type itself; "emlang-" + elem.Type.String()
cssClass(type) == <<"emlang-", type>>

\* buildProps: the value of a prop is its text.
buildProps(props) ==
    [i \in 1..Len(props) |-> [Key |-> props[i].Key, Value |-> props[i].Value]]

\* elementIndex that counts from 0.
elementIndexFromZero(slice, elem) ==
    LET at == {i \in 1..Len(slice.Elements) : slice.Elements[i] = elem}
    IN  IF at = {} THEN 1 ELSE (CHOOSE i \in at : \A j \in at : i <= j) - 1

\* elementIndex returns the 1-based position of an element within its
\* slice: the first e == elem, a comparison of pointers.
elementIndex(slice, elem) ==
    LET at == {i \in 1..Len(slice.Elements) : slice.Elements[i] = elem}
    IN  IF at = {} THEN 1 ELSE CHOOSE i \in at : \A j \in at : i <= j

rowTriggers == "emlang-row-triggers"
rowMain == "emlang-row-main"
rowEvents == "emlang-row-events"
rowTests == "emlang-row-tests"

\* match that does not compare the swimlane of the element with the lane.
matchIgnoringLane(class, lane, e) ==
    CASE class = rowTriggers -> e.Type = ElementTrigger
      [] class = rowMain -> e.Type \in {ElementCommand, ElementView}
      [] class = rowEvents -> e.Type \in {ElementEvent, ElementException}

\* The match functions buildDocumentData passes to buildElementRow, by the
\* class of the row they are passed with.
match(class, lane, e) ==
    IF class = rowTriggers THEN e.Type = ElementTrigger /\ e.Swimlane = lane
    ELSE IF class = rowMain THEN e.Type \in {ElementCommand, ElementView}
    ELSE e.Type \in {ElementEvent, ElementException} /\ e.Swimlane = lane

\* buildElementRow: the elementData of an element.
elementData(slice, elem) ==
    [CSSClass |-> cssClass(elem.Type), Name |-> elem.Name,
     GridCol |-> elementIndex(slice, elem), Props |-> buildProps(elem.Props)]

\* buildElementRow: the loop over slice.Elements from the i-th element on.
RECURSIVE rowElements(_, _, _, _, _)
rowElements(slice, class, lane, i, elems) ==
    IF i > Len(slice.Elements) THEN elems
    ELSE rowElements(slice, class, lane, i + 1,
             IF match(class, lane, slice.Elements[i])
             THEN Append(elems, elementData(slice, slice.Elements[i]))
             ELSE elems)

\* buildElementRow
buildElementRow(l, sd, class, lane) ==
    [Class |-> class, HasSwimlanes |-> l.hasSwimlanes, Swimlane |-> lane,
     Slices |-> [i \in 1..Len(l.sliceOrder) |->
                    [Elements |-> rowElements(sd.Slices[l.sliceOrder[i]],
                                              class, lane, 1, <<>>)]]]

\* hasTests: some slice of SliceOrder has a test.
hasTests(sd) ==
    \E i \in 1..Len(sd.SliceOrder) : DOMAIN sd.Slices[sd.SliceOrder[i]].Tests # {}

\* buildTestsRow: one entry per slice of the layout.  The tests of an entry
\* are listed by Slice.TestOrder, a field ast.Slice does not have here; the
\* entries are left without them.
buildTestsRow(l, sd) ==
    [Class |-> rowTests, HasSwimlanes |-> l.hasSwimlanes, Swimlane |-> <<>>,
     Slices |-> [i \in 1..Len(l.sliceOrder) |-> [Elements |-> <<>>]]]

\* buildDocumentData: the slice columns for CSS.
sliceColumns(l, sd) ==
    IF l.hasSwimlanes
    THEN <<[ChildIndex |-> 1, StartCol |-> 1, Span |-> 1]>>
         \o [i \in 1..Len(sd.SliceOrder) |->
                [ChildIndex |-> i + 1,
                 StartCol |-> l.sliceStartCol[sd.SliceOrder[i]],
                 Span |-> l.sliceWidths[sd.SliceOrder[i]]]]
    ELSE [i \in 1..Len(sd.SliceOrder) |->
             [ChildIndex |-> i,
              StartCol |-> l.sliceStartCol[sd.SliceOrder[i]],
              Span |-> l.sliceWidths[sd.SliceOrder[i]]]]

\* buildDocumentData: the slice names.
sliceNames(l) ==
    [i \in 1..Len(l.sliceOrder) |->
        [DisplayName |-> IF l.sliceOrder[i] = <<>>
                         THEN <<"(anonymous)">> ELSE l.sliceOrder[i]]]

\* buildDocumentData: the rows: trigger rows, main row, event rows, tests row.
documentRows(l, sd) ==
    [i \in 1..Len(l.triggerLanes) |->
        buildElementRow(l, sd, rowTriggers, l.triggerLanes[i])]
    \o (IF l.hasMainRow THEN <<buildElementRow(l, sd, rowMain, <<>>)>> ELSE <<>>)
    \o [i \in 1..Len(l.eventLanes) |->
           buildElementRow(l, sd, rowEvents, l.eventLanes[i])]
    \o (IF hasTests(sd) THEN <<buildTestsRow(l, sd)>> ELSE <<>>)

\* buildDocumentData after computeLayout returned l.
documentData(hash, idx, sd, l) ==
    [ID |-> documentID(hash, idx),
     TotalColumns |-> l.totalColumns,
     HasSwimlanes |-> l.hasSwimlanes,
     SliceColumns |-> sliceColumns(l, sd),
     SliceNames |-> sliceNames(l),
     Rows |-> documentRows(l, sd),
     layout |-> l]  \* the layout it was built from, kept to be read

\* buildDocumentData
buildDocumentData(hash, idx, sd) ==
    documentData(hash, idx, sd, computeLayout(sd))

\* buildDiagramData: the Documents, one per SubDoc, idx counted from 0.
buildDiagramData(hash, d) ==
    [i \in 1..Len(d.SubDocs) |-> buildDocumentData(hash, i - 1, d.SubDocs[i])]

\* ------------------------------------------------ the decoder's node trees

\* A node that spans lines of its own in block style.
IsBlock(n) ==
    n.Kind \in {SequenceNode, MappingNode, DocumentNode} /\ Len(n.Content) > 0

\* The lines the decoder gives the nodes of a block-style text: a mapping
\* key and a scalar or empty value share a line, a non-empty collection
\* under a key starts on the next line, every sequence item starts a line.
\* Height(n) is the number of lines of n, LinesBefore(n, i) the number of
\* lines of n before its Content[i], SetLines(n, l) is n placed at line l.
\* An alias refers to the anchored one-line node on the line before it.
RECURSIVE Height(_)
RECURSIVE LinesBefore(_, _)
ChildLines(n, i) ==
    IF n.Kind # MappingNode THEN Height(n.Content[i])
    ELSE IF i % 2 = 1 THEN 0
    ELSE IF IsBlock(n.Content[i]) THEN 1 + Height(n.Content[i])
    ELSE 1

LinesBefore(n, i) ==
    IF i = 1 THEN 0 ELSE LinesBefore(n, i - 1) + ChildLines(n, i - 1)

Height(n) ==
    IF IsBlock(n) THEN LinesBefore(n, Len(n.Content) + 1) ELSE 1

RECURSIVE SetLines(_, _)
SetLines(n, l) ==
    IF n.Kind = AliasNode
    THEN [n EXCEPT !.Line = l, !.Content = <<SetLines(n.Content[1], l - 1)>>]
    ELSE IF IsBlock(n)
    THEN [n EXCEPT
             !.Line = l,
             !.Content =
                 [i \in 1..Len(n.Content) |->
                     SetLines(n.Content[i],
                              l + LinesBefore(n, i)
                                + IF n.Kind = MappingNode /\ i % 2 = 0
                                     /\ IsBlock(n.Content[i])
                                  THEN 1 ELSE 0)]]
    ELSE [n EXCEPT !.Line = l]

\* The documents of a source, one after the other, a "---" line between two.
RECURSIVE SourceLinesBefore(_, _)
SourceLinesBefore(docs, i) ==
    IF i = 1 THEN 0 ELSE SourceLinesBefore(docs, i - 1) + Height(docs[i - 1]) + 1

SetSourceLines(docs) ==
    [i \in 1..Len(docs) |-> SetLines(docs[i], 1 + SourceLinesBefore(docs, i))]

\* -------------------------------------------------------------- formatter

\* ElementType.String
String(t) ==
    CASE t = ElementTrigger -> <<"t", "r", "i", "g", "g", "e", "r">>
      [] t = ElementCommand -> <<"c", "o", "m", "m", "a", "n", "d">>
      [] t = ElementEvent -> <<"e", "v", "e", "n", "t">>
      [] t = ElementException -> <<"e", "x", "c", "e", "p", "t", "i", "o", "n">>
      [] t = ElementView -> <<"v", "i", "e", "w">>
      [] OTHER -> <<"u", "n", "k", "n", "o", "w", "n">>

\* the key styles Format is called with: the default, and the two it names
KeyStyles == {"", "short", "long"}

\* typeKey returns the YAML key for an element type based on key style.
typeKey(t, style) ==
    IF style = "short" /\ t \in ElementTypes
    THEN CASE t = ElementTrigger -> <<"t">>
           [] t = ElementCommand -> <<"c">>
           [] t = ElementEvent -> <<"e">>
           [] t = ElementException -> <<"x">>
           [] t = ElementView -> <<"v">>
    ELSE String(t)

\* writer.indent: level*2 spaces
indent(level) == [i \in 1..(level * 2) |-> " "]

\* writer.line
line(level, s) == indent(level) \o s \o <<"\n">>

\* formatValue of a string
formatValue(v) == v

\* writer.writeProps
RECURSIVE writePropsFrom(_, _, _)
writePropsFrom(level, props, i) ==
    IF i > Len(props) THEN <<>>
    ELSE indent(level) \o props[i].Key \o <<":", " ">> \o formatValue(props[i].Value)
         \o <<"\n">> \o writePropsFrom(level, props, i + 1)

writeProps(level, props) == writePropsFrom(level, props, 1)

\* writer.writeElement
writeElement(level, elem, style) ==
    LET name == IF elem.Swimlane # <<>> THEN elem.Swimlane \o <<"/">> \o elem.Name
                ELSE elem.Name
        head == indent(level) \o <<"-", " ">> \o typeKey(elem.Type, style)
                \o <<":", " ">> \o name \o <<"\n">>
    IN  IF Len(elem.Props) = 0 THEN head
        ELSE head \o indent(level + 1) \o <<"p", "r", "o", "p", "s", ":", "\n">>
             \o writeProps(level + 2, elem.Props)

\* writer.writeElementList
RECURSIVE writeElementsFrom(_, _, _, _)
writeElementsFrom(level, elems, style, i) ==
    IF i > Len(elems) THEN <<>>
    ELSE writeElement(level, elems[i], style)
         \o writeElementsFrom(level, elems, style, i + 1)

writeElementList(level, elems, style) == writeElementsFrom(level, elems, style, 1)

\* writer.writeTest, one section: the key when the source had it, and the
\* elements under it
writeSection(key, has, elems, style) ==
    IF has THEN line(4, key \o <<":">>) \o writeElementList(5, elems, style)
    ELSE <<>>

\* writer.writeTest
writeTest(name, test, style) ==
    line(3, name \o <<":">>)
    \o writeSection(kGiven, test.HasGiven, test.Given, style)
    \o writeSection(kWhen, test.HasWhen, test.When, style)
    \o writeSection(kThen, test.HasThen, test.Then, style)

\* the byte of a character of the names
byte(c) ==
    CASE c = " " -> 32 [] c = "/" -> 47 [] c = "a" -> 97 [] c = "b" -> 98
      [] OTHER -> 122

\* s < t as sort.Strings compares: byte by byte
RECURSIVE Less(_, _)
Less(s, t) ==
    IF Len(t) = 0 THEN FALSE
    ELSE IF Len(s) = 0 THEN TRUE
    ELSE IF s[1] # t[1] THEN byte(s[1]) < byte(t[1])
    ELSE Less(Tail(s), Tail(t))

\* sort.Strings of the keys of a map
RECURSIVE sortStrings(_)
sortStrings(names) ==
    IF names = {} THEN <<>>
    ELSE LET first == CHOOSE n \in names : \A m \in names \ {n} : Less(n, m)
         IN  <<first>> \o sortStrings(names \ {first})

\* writer.writeTests
RECURSIVE writeTestsFrom(_, _, _, _)
writeTestsFrom(tests, names, style, i) ==
    IF i > Len(names) THEN <<>>
    ELSE writeTest(names[i], tests[names[i]], style)
         \o writeTestsFrom(tests, names, style, i + 1)

writeTests(tests, style) == writeTestsFrom(tests, sortStrings(DOMAIN tests), style, 1)

\* writer.writeSlice
writeSlice(name, slice, style) ==
    line(1, name \o <<":">>)
    \o IF slice.Tests # EmptyMap
       THEN (IF Len(slice.Elements) > 0
             THEN line(2, kSteps \o <<":">>) \o writeElementList(3, slice.Elements, style)
             ELSE <<>>)
            \o line(2, kTests \o <<":">>) \o writeTests(slice.Tests, style)
       ELSE writeElementList(2, slice.Elements, style)

\* writer.writeSubDoc
RECURSIVE writeSlicesFrom(_, _, _)
writeSlicesFrom(sd, style, i) ==
    IF i > Len(sd.SliceOrder) THEN <<>>
    ELSE writeSlice(sd.SliceOrder[i], sd.Slices[sd.SliceOrder[i]], style)
         \o writeSlicesFrom(sd, style, i + 1)

writeSubDoc(sd, style) == kSlices \o <<":", "\n">> \o writeSlicesFrom(sd, style, 1)

\* Format, the loop over doc.SubDocs from the i-th on
RECURSIVE writeSubDocsFrom(_, _, _)
writeSubDocsFrom(d, style, i) ==
    IF i > Len(d.SubDocs) THEN <<>>
    ELSE (IF i > 1 THEN <<"-", "-", "-", "\n">> ELSE <<>>)
         \o writeSubDoc(d.SubDocs[i], style)
         \o writeSubDocsFrom(d, style, i + 1)

\* Format renders the AST document as canonical YAML.
Format(d, opts) ==
    writeSubDocsFrom(d, IF opts.KeyStyle = "" THEN "short" ELSE opts.KeyStyle, 1)

\* ----------------------------------------------------------------- linter

SeverityWarning == "warning"
SeverityError == "error"

\* the rules lintSlice reports, and the IgnoreRules sets the linter is
\* given: none, or one of its rules
LintRules == {"command-without-event", "orphan-exception", "slice-missing-event"}
IgnoreSets == {{}} \cup {{rule} : rule \in LintRules}

\* New creates a new Linter.
NewLinter(ignore) == [issues |-> <<>>, IgnoreRules |-> ignore]

\* Linter.addIssue (Column is not modelled)
addIssue(l, rule, message, lineNo, severity) ==
    IF rule \in l.IgnoreRules THEN l
    ELSE [l EXCEPT !.issues =
             Append(@, [Rule |-> rule, Message |-> message, Line |-> lineNo,
                        Severity |-> severity])]

\* isFollowedByEventOrException: the loop from place i on (1-based)
RECURSIVE followedFrom(_, _)
followedFrom(elements, i) ==
    IF i > Len(elements) THEN FALSE
    ELSE IF elements[i].Type \in {ElementEvent, ElementException} THEN TRUE
    ELSE IF elements[i].Type = ElementCommand THEN FALSE
    ELSE followedFrom(elements, i + 1)

\* isFollowedByEventOrException that looks only at the next element.
isFollowedByNextElement(elements, index) ==
    /\ index < Len(elements)
    /\ elements[index + 1].Type \in {ElementEvent, ElementException}

\* Linter.isFollowedByEventOrException, index the place of the command
isFollowedByEventOrException(elements, index) == followedFrom(elements, index + 1)

\* lintSlice, one round of the loop over slice.Elements; st is
\* [l, hasEvent, hasCommandInSeq]
lintCommand(st, elements, i) ==
    IF elements[i].Type # ElementCommand THEN st
    ELSE IF isFollowedByEventOrException(elements, i)
    THEN [st EXCEPT !.hasCommandInSeq = TRUE]
    ELSE [st EXCEPT !.hasCommandInSeq = TRUE,
                    !.l = addIssue(@, "command-without-event",
                              <<"command should be followed by an event or exception">>,
                              elements[i].Line, SeverityWarning)]

lintException(st, elements, i) ==
    IF elements[i].Type = ElementException /\ ~st.hasCommandInSeq
    THEN [st EXCEPT !.l = addIssue(@, "orphan-exception",
                              <<"exception without preceding command">>,
                              elements[i].Line, SeverityWarning)]
    ELSE st

lintElement(st, elements, i) ==
    lintException(
        lintCommand([st EXCEPT !.hasEvent = @ \/ elements[i].Type = ElementEvent],
                    elements, i),
        elements, i)

RECURSIVE lintElements(_, _, _)
lintElements(st, elements, i) ==
    IF i > Len(elements) THEN st
    ELSE lintElements(lintElement(st, elements, i), elements, i + 1)

\* lintSlice after the loop: st is what the loop left
lintMissingEvent(st, name) ==
    IF st.hasEvent THEN st.l
    ELSE addIssue(st.l, "slice-missing-event", <<"slice has no events", name>>,
                  0, SeverityWarning)

\* lintSlice that reports a slice without elements.
lintSliceReportingEmpty(l, name, slice) ==
    IF Len(slice.Elements) = 0
    THEN addIssue(l, "empty-slice", <<"slice has no elements", name>>, 0, SeverityError)
    ELSE lintMissingEvent(
             lintElements([l |-> l, hasEvent |-> FALSE, hasCommandInSeq |-> FALSE],
                          slice.Elements, 1),
             name)

\* Linter.lintSlice
lintSlice(l, name, slice) ==
    IF Len(slice.Elements) = 0 THEN l
    ELSE lintMissingEvent(
             lintElements([l |-> l, hasEvent |-> FALSE, hasCommandInSeq |-> FALSE],
                          slice.Elements, 1),
             name)

\* the calls of lintSlice that Lint makes for a Document, in order:
\* <<SubDoc, place in its SliceOrder>>
RECURSIVE lintCallsFrom(_, _)
lintCallsFrom(d, i) ==
    IF i > Len(d.SubDocs) THEN <<>>
    ELSE [k \in 1..Len(d.SubDocs[i].SliceOrder) |-> <<i, k>>] \o lintCallsFrom(d, i + 1)

lintCalls(d) == lintCallsFrom(d, 1)

\* Lint, the n-th call of lintSlice
lintCall(l, d, call) ==
    lintSlice(l, d.SubDocs[call[1]].SliceOrder[call[2]],
              d.SubDocs[call[1]].Slices[d.SubDocs[call[1]].SliceOrder[call[2]]])

RECURSIVE lintFrom(_, _, _, _)
lintFrom(l, d, calls, n) ==
    IF n > Len(calls) THEN l
    ELSE lintFrom(lintCall(l, d, calls[n]), d, calls, n + 1)

\* Lint analyzes the given document and returns any issues found; the
\* result is the linter after the call, its issues are what is returned.
Lint(l, d) == lintFrom([l EXCEPT !.issues = <<>>], d, lintCalls(d), 1)

\* ------------------------------------------------------- decoding a text

\* The decoder on a text, for the block style the formatter writes: plain
\* scalars, "key:" and "key: value" lines, "- " items and "---" lines,
\* nesting by indentation.  Anything else in a text is a parse error.

\* the places of the line ends of a text, and its k-th line
lineEnds(text) == {i \in 1..Len(text) : text[i] = "\n"}

lineStart(text, ends, k) ==
    IF k = 1 THEN 1
    ELSE 1 + CHOOSE i \in ends : Cardinality({j \in ends : j < i}) = k - 2

lineEnd(text, ends, k) ==
    CHOOSE i \in ends : Cardinality({j \in ends : j < i}) = k - 1

\* a line: its number, its indentation and what follows the indentation
textLine(text, ends, k) ==
    LET s == SubSeq(text, lineStart(text, ends, k), lineEnd(text, ends, k) - 1)
        body == TrimLeft(s)
    IN  [no |-> k, ind |-> Len(s) - Len(body), body |-> body]

textLines(text) ==
    LET ends == lineEnds(text)
    IN  [k \in 1..Cardinality(ends) |-> textLine(text, ends, k)]

\* "- " starts a sequence item, "key:" or "key: " a mapping entry
isItem(body) == Len(body) > 0 /\ body[1] = "-" /\ (Len(body) = 1 \/ body[2] = " ")

colons(body) ==
    {i \in 1..Len(body) : body[i] = ":" /\ (i = Len(body) \/ body[i + 1] = " ")}

isEntry(body) == colons(body) # {}

colon(body) == CHOOSE i \in colons(body) : \A j \in colons(body) : i <= j

At(n, l) == [n EXCEPT !.Line = l]

Failed == [ok |-> FALSE, node |-> NInvalid, next |-> 0]

\* blockAt(ls, i, n): the node that starts on line i at indentation n, and
\* the line after it
RECURSIVE blockAt(_, _, _)
RECURSIVE itemsFrom(_, _, _, _)
RECURSIVE entriesFrom(_, _, _, _)

\* the value of the entry on line i of a mapping at indentation n
valueAt(ls, i, n, rest) ==
    IF rest # <<>>
    THEN [ok |-> TRUE, node |-> At(NScalar(rest), ls[i].no), next |-> i + 1]
    ELSE IF i < Len(ls) /\ ls[i + 1].ind > n
    THEN blockAt(ls, i + 1, ls[i + 1].ind)
    ELSE [ok |-> TRUE, node |-> At(NNull, ls[i].no), next |-> i + 1]

entryAt(ls, i, n, content) ==
    LET c == colon(ls[i].body)
        key == At(NScalar(SubSeq(ls[i].body, 1, c - 1)), ls[i].no)
        v == valueAt(ls, i, n, TrimSpace(SubSeq(ls[i].body, c + 1, Len(ls[i].body))))
    IN  IF v.ok THEN entriesFrom(ls, v.next, n, content \o <<key, v.node>>)
        ELSE Failed

entriesFrom(ls, i, n, content) ==
    IF i > Len(ls) \/ ls[i].ind < n
    THEN [ok |-> TRUE, node |-> NMap(content), next |-> i]
    ELSE IF ls[i].ind > n \/ isItem(ls[i].body) \/ ~isEntry(ls[i].body) THEN Failed
    ELSE entryAt(ls, i, n, content)

\* the item on line i of a sequence at indentation n: what follows "- " is
\* the first line of a block two columns further in
itemAt(ls, i, n, items) ==
    LET rest == TrimLeft(SubSeq(ls[i].body, 3, Len(ls[i].body)))
        inner == [ls EXCEPT ![i] = [no |-> ls[i].no, ind |-> n + 2, body |-> rest]]
        r == IF rest = <<>>
             THEN valueAt(ls, i, n, <<>>)
             ELSE blockAt(inner, i, n + 2)
    IN  IF r.ok THEN itemsFrom(ls, r.next, n, Append(items, r.node)) ELSE Failed

itemsFrom(ls, i, n, items) ==
    IF i > Len(ls) \/ ls[i].ind < n
    THEN [ok |-> TRUE, node |-> NSeq(items), next |-> i]
    ELSE IF ls[i].ind > n \/ ~isItem(ls[i].body) THEN Failed
    ELSE itemAt(ls, i, n, items)

firstLine(r, l) == IF r.ok THEN [r EXCEPT !.node = At(@, l)] ELSE r

blockAt(ls, i, n) ==
    IF isItem(ls[i].body) THEN firstLine(itemsFrom(ls, i, n, <<>>), ls[i].no)
    ELSE IF isEntry(ls[i].body) THEN firstLine(entriesFrom(ls, i, n, <<>>), ls[i].no)
    ELSE [ok |-> TRUE, node |-> At(NScalar(TrimRight(ls[i].body)), ls[i].no),
          next |-> i + 1]

\* a "---" line ends a document
isSeparator(l) == l.ind = 0 /\ l.body = <<"-", "-", "-">>

\* the document of the lines ls: its root is the block of the first line
\* and has to take them all
documentOf(ls) ==
    IF Len(ls) = 0 THEN NDoc(<<NNull>>)
    ELSE LET r == blockAt(ls, 1, ls[1].ind)
         IN  IF r.ok /\ r.next = Len(ls) + 1 THEN At(NDoc(<<r.node>>), ls[1].no)
             ELSE NInvalid

\* the documents of the lines from the i-th on; from is the first line of
\* the document line i is in
RECURSIVE documentsFrom(_, _, _)
documentsFrom(ls, from, i) ==
    IF i > Len(ls)
    THEN IF from > Len(ls) /\ from = 1 THEN <<>>
         ELSE <<documentOf(SubSeq(ls, from, Len(ls)))>>
    ELSE IF isSeparator(ls[i]) /\ i = 1 THEN documentsFrom(ls, 2, 2)
    ELSE IF isSeparator(ls[i])
    THEN <<documentOf(SubSeq(ls, from, i - 1))>> \o documentsFrom(ls, i + 1, i + 1)
    ELSE documentsFrom(ls, from, i + 1)

\* yaml.NewDecoder(r) and its Decode calls: the documents of a text
Decode(text) == documentsFrom(textLines(text), 1, 1)

\* ---------------------------------------------------------------- sources

\* all sequences over S of length at most n
SeqsUpTo(S, n) == UNION {[1..k -> S] : k \in 0..n}

\* the Content of a mapping with the key/value pairs ps
Pairs(ps) == [i \in 1..(2 * Len(ps)) |-> ps[(i + 1) \div 2][((i + 1) % 2) + 1]]

\* the content hashes of the sources: HashLen hex characters each
Hashes == {[i \in 1..HashLen |-> IF i = HashLen THEN c ELSE "0"] : c \in {"0", "f"}}

sA == <<"a">>
sB == <<"b">>
sLaneA == <<"a", "/", "a">>

\* - key: name
Elem(key, name) == NMap(<<NScalar(key), NScalar(name)>>)
eT == Elem(<<"t">>, sLaneA)
eC == Elem(<<"c">>, sA)
eE == Elem(<<"e">>, sA)
eX == Elem(<<"x">>, sA)
eV == Elem(<<"v">>, sLaneA)
eBad == Elem(kOther, sA)

\* slices: {name: value, ...}
Root(pairs) == NDoc(<<NMap(Pairs(pairs))>>)
Slices(entries) == Root(<<<<NScalar(kSlices), NMap(Pairs(entries))>>>>)
OneSlice(value) == Slices(<<<<NScalar(sA), value>>>>)
\* a: {steps: [t, c, e], tests: {a: test}}
OneTest(test) ==
    OneSlice(NMap(<<NScalar(kSteps), NSeq(<<eT, eC, eE>>),
                    NScalar(kTests), NMap(<<NScalar(sA), test>>)>>))

\* element names: one slice, one event, every text of the alphabet
NameSources ==
    {<<OneSlice(NSeq(<<Elem(<<"e">>, n)>>))>> : n \in SeqsUpTo(Chars, MaxNameLen)}

\* element mappings: every key sequence over the aliases, props and an
\* unknown key; an item that is no mapping; aliases
ElemPairs ==
    {<<NScalar(k), NScalar(sA)>> : k \in DOMAIN elementPrefixes \cup {kOther}}
    \cup {<<NScalar(kProps), NMap(<<NScalar(sA), NScalar(sB)>>)>>,
          <<NScalar(kProps), NScalar(sA)>>}
ElementSources ==
    {<<OneSlice(NSeq(<<NMap(Pairs(ps))>>))>> : ps \in SeqsUpTo(ElemPairs, MaxElemKeys)}
    \cup {<<OneSlice(NSeq(<<NScalar(sA)>>))>>,
          <<OneSlice(NSeq(<<eE, NAlias(eE)>>))>>,
          <<OneSlice(NSeq(<<NScalar(sA), NAlias(NScalar(sA))>>))>>}

\* slice values: direct forms and every key sequence of the extended form
DirectValues ==
    {NNull, NScalar(sA)}
    \cup {NSeq(items) : items \in SeqsUpTo({eT, eC, eE, eBad}, MaxElems)}
SlicePairs ==
    {<<NScalar(kSteps), v>> :
        v \in {NNull, NSeq(<<>>), NSeq(<<eC, eE>>), NSeq(<<eBad>>), NScalar(sA)}}
    \cup {<<NScalar(kTests), v>> :
        v \in {NNull, NMap(<<>>), NScalar(sA), NMap(<<NScalar(sA), NNull>>),
               NMap(<<NScalar(sA), NMap(<<NScalar(kWhen), NSeq(<<eC>>)>>)>>),
               NMap(<<NScalar(sA), NMap(<<NScalar(kWhen), NSeq(<<eE>>)>>)>>)}}
    \cup {<<NScalar(kOther), NNull>>}
SliceSources ==
    {<<OneSlice(v)>> : v \in DirectValues}
    \cup {<<OneSlice(NMap(Pairs(ps)))>> : ps \in SeqsUpTo(SlicePairs, MaxSliceKeys)}

\* slices mappings: every sequence of entries, names repeated or not
SliceEntries ==
    {<<NScalar(n), v>> :
        n \in {sA, sB},
        v \in {NNull, NSeq(<<eC>>), NSeq(<<eT, eE>>), NSeq(<<>>),
               NMap(<<NScalar(kSteps), NSeq(<<eV>>),
                      NScalar(kTests), NMap(<<NScalar(sA), NNull>>)>>)}}
SlicesSources == {<<Slices(es)>> : es \in SeqsUpTo(SliceEntries, MaxSlices)}

\* tests: one section with every list of element types, and every key
\* sequence of a test mapping
SectionKeys == {kGiven, kWhen, kThen}
SectionValues ==
    {NNull, NScalar(sA)}
    \cup {NSeq(items) : items \in SeqsUpTo({eT, eC, eE, eX, eV}, MaxSecElems)}
TestPairs ==
    {<<NScalar(kGiven), NNull>>, <<NScalar(kGiven), NSeq(<<eE>>)>>,
     <<NScalar(kWhen), NSeq(<<eC>>)>>, <<NScalar(kWhen), NSeq(<<eT>>)>>,
     <<NScalar(kThen), NNull>>, <<NScalar(kThen), NSeq(<<eX>>)>>,
     <<NScalar(kOther), NNull>>}
TestSources ==
    {<<OneTest(NMap(<<NScalar(k), v>>))>> : k \in SectionKeys, v \in SectionValues}
    \cup {<<OneTest(NMap(Pairs(ps)))>> : ps \in SeqsUpTo(TestPairs, MaxTestKeys)}
    \cup {<<OneTest(NNull)>>, <<OneTest(NScalar(sA))>>}

\* physical documents, and the sources made of them
DocPool ==
    {NDoc(<<>>), NInvalid, NDoc(<<NScalar(sA)>>),
     Root(<<<<NScalar(kSlices), NNull>>>>),
     Slices(<<<<NScalar(sA), NSeq(<<eC>>)>>>>),
     Slices(<<<<NScalar(sA), NSeq(<<eT, eE>>)>>, <<NScalar(sB), NSeq(<<eC>>)>>>>),
     Slices(<<<<NScalar(sB), NSeq(<<eC, eE>>)>>, <<NScalar(sA), NNull>>>>),
     Slices(<<<<NScalar(sA), NSeq(<<eC>>)>>, <<NScalar(sA), NSeq(<<eE>>)>>>>),
     Root(<<<<NScalar(kSlices), NMap(<<NScalar(sA), NSeq(<<eC>>)>>)>>,
            <<NScalar(kSlices), NMap(<<NScalar(sB), NSeq(<<eE>>)>>)>>>>),
     Root(<<<<NScalar(kSlices), NMap(<<NScalar(sA), NSeq(<<eC>>)>>)>>,
            <<NScalar(kOther), NNull>>>>)}
RootSources ==
    {<<NDoc(<<NSeq(<<eC>>)>>)>>, <<Root(<<>>)>>,
     <<Root(<<<<NScalar(kSlices), NScalar(sA)>>>>)>>,
     <<Root(<<<<NScalar(kOther), NNull>>>>)>>,
     <<Root(<<<<NScalar(kSlices), NMap(<<NScalar(sA), NSeq(<<eT>>)>>)>>,
              <<NScalar(kSlices), NMap(<<NScalar(sB), NSeq(<<eE>>)>>)>>>>)>>,
     <<Root(<<<<NScalar(kSlices),
                NMap(<<NScalar(sA),
                       NMap(<<NScalar(kSteps), NSeq(<<eC>>),
                              NScalar(kTests), NMap(<<NScalar(sA), NNull>>)>>)>>)>>,
              <<NScalar(kSlices), NMap(<<NScalar(sB), NSeq(<<eE>>)>>)>>>>)>>}

\* layouts: a slice a with every list of triggers, commands, events,
\* exceptions and views with and without swimlanes, before or after a slice b
sLaneB == <<"b", "/", "a">>
LaneElems ==
    {Elem(<<"t">>, sA), eT, eC, eE, Elem(<<"x">>, sLaneB), eV}
LaneLists == {NSeq(items) : items \in SeqsUpTo(LaneElems, MaxLaneElems)} \ {NSeq(<<>>)}
OtherSlices ==
    {NNull, NSeq(<<eC>>), NSeq(<<Elem(<<"t">>, sLaneB), eE, eX>>),
     NMap(<<NScalar(kSteps), NSeq(<<eC>>),
            NScalar(kTests),
            NMap(<<NScalar(sA), NMap(<<NScalar(kThen), NSeq(<<eV>>)>>)>>)>>)}
LayoutSources ==
    {<<Slices(<<<<NScalar(sA), l>>, <<NScalar(sB), o>>>>)>> :
        l \in LaneLists, o \in OtherSlices}
    \cup {<<Slices(<<<<NScalar(sB), o>>, <<NScalar(sA), l>>>>)>> :
        l \in LaneLists, o \in OtherSlices}
DocSources == SeqsUpTo(DocPool, MaxDocs) \cup RootSources

\* linting: one slice with every list of commands, events, exceptions,
\* views and triggers
LintSources ==
    {<<OneSlice(NSeq(items))>> :
        items \in SeqsUpTo({eT, eC, eE, eX, eV}, MaxLintElems) \ {<<>>}}

\* the sources Parse is run on, with the decoder's line numbers
Sources ==
    {SetSourceLines(s) :
        s \in NameSources \cup ElementSources \cup SliceSources \cup SlicesSources
              \cup TestSources \cup DocSources \cup LayoutSources
              \cup LintSources}

\* ------------------------------------------------------ live-reload server

\* the latest modification time of the watched file
MaxMod == 3

\* the file is missing
NoFile == [raw |-> <<>>, sha1 |-> <<>>, missing |-> TRUE]

\* the contents of the watched file: the documents the decoder yields from
\* its bytes, with their contentHash: two valid sources, a source Parse
\* rejects, and no file
OneSliceFile ==
    [raw |-> SetSourceLines(<<Slices(<<<<NScalar(sA), NSeq(<<eC>>)>>>>)>>),
     sha1 |-> [i \in 1..HashLen |-> "0"], missing |-> FALSE]

TwoSliceFile ==
    [raw |-> SetSourceLines(<<Slices(<<<<NScalar(sA), NSeq(<<eT, eE>>)>>,
                                       <<NScalar(sB), NSeq(<<eC>>)>>>>)>>),
     sha1 |-> [i \in 1..HashLen |-> "f"], missing |-> FALSE]

\* a file the parser rejects
BadFile ==
    [raw |-> SetSourceLines(<<NDoc(<<NScalar(sA)>>)>>),
     sha1 |-> [i \in 1..HashLen |-> IF i = 1 THEN "f" ELSE "0"], missing |-> FALSE]

FileContents == {OneSliceFile, TwoSliceFile, BadFile, NoFile}

\* wrapHTML wraps an HTML fragment in a full HTML page with live-reload
\* script.
wrapHTML(fragment) ==
    [head |-> "<!DOCTYPE html>", fragment |-> fragment, script |-> "pollJS"]

\* hashBytes that gives every page the same digest.
hashBytesOfNothing(b) == [sha256 |-> <<>>]

\* hashBytes returns a hex-encoded SHA-256 hash of the given bytes.  The
\* digest of a page stands for itself: no two pages share one.
hashBytes(b) == [sha256 |-> b]

\* Generator.Generate: the fragment of a Document
fragmentOf(sha1, d) ==
    IF Len(d.SubDocs) = 0 THEN <<>> ELSE buildDiagramData(sha1, d)

\* generate, after parser.Parse returned r
generateParsed(content, r) ==
    IF r.isNil THEN [html |-> <<>>, err |-> "parse error"]
    ELSE [html |-> wrapHTML(fragmentOf(content.sha1, r.doc)), err |-> ""]

\* generate parses the file and generates the wrapped HTML page.
generate(content) ==
    IF content.missing THEN [html |-> <<>>, err |-> "open"]
    ELSE generateParsed(content, Parse(content.raw))

\* generate of every content the file takes, computed once: the page or the
\* error
pageOf ==
    OneSliceFile :> generate(OneSliceFile) @@ TwoSliceFile :> generate(TwoSliceFile)
    @@ BadFile :> generate(BadFile) @@ NoFile :> generate(NoFile)

\* ------------------------------------------------------------------ Parse

VARIABLES
    input,  \* the documents decoder.Decode yields, in order
    pos,    \* the number of documents decoded so far
    doc,    \* Parse's doc
    pc,     \* "loop" inside the for loop of Parse, "done" after its return
    ret,    \* what Parse returned: [isNil, doc, err]
    hash,   \* contentHash(doc.RawSource)
    diagrams,  \* what the calls of Generate on the returned Document built
    opts,   \* the Options of the calls of Format
    out,    \* what Format wrote: of the returned Document, then of again.doc
    again,  \* what Parse returned for out[1]: [isNil, doc, err]
    lints,  \* the Linter after its call of Lint on the returned Document
    file,   \* the watched file: [content, mod], and whether it is written no more
    state,      \* the state of the live-reload server: [html, hash, lastMod]
    mu,     \* s.mu: [writer, readers]
    start,  \* Start: its place and its html
    watcher,  \* the watcher goroutine: its place, info.ModTime() and newHTML
    reader,   \* a client of the server: the handler it is in, its last response
    stopped,  \* ctx is cancelled and the server shut down
    lint,   \* the Linter of StartRepl, shared by its handlers
    reqs    \* the /render requests of the REPL server

cliVars == <<input, pos, doc, pc, ret, hash, diagrams, opts, out, again, lints>>
serveVars == <<file, state, mu, start, watcher, reader, stopped>>
replVars == <<lint, reqs>>
vars == <<cliVars, serveVars, replVars>>

\* no live-reload server and no REPL server runs
ServeOff ==
    /\ file = [content |-> NoFile, mod |-> 1, final |-> TRUE]
    /\ state = [html |-> <<>>, hash |-> <<>>, lastMod |-> 0]
    /\ mu = [writer |-> FALSE, readers |-> 0]
    /\ start = [pc |-> "off", html |-> <<>>]
    /\ watcher = [pc |-> "off", info |-> 0, newHTML |-> <<>>]
    /\ reader = [pc |-> "off", resp |-> <<>>]
    /\ stopped = FALSE

ReplOff ==
    /\ lint = NewLinter({})
    /\ reqs = <<>>

NoReturn == [isNil |-> TRUE, doc |-> NewDocument, err |-> NoErr]

Init ==
    /\ input \in Sources
    /\ pos = 0
    /\ doc = NewDocument
    /\ pc = "loop"
    /\ ret = NoReturn
    /\ hash \in Hashes
    /\ diagrams = <<>>
    /\ opts = [KeyStyle |-> ""]
    /\ out = <<>>
    /\ again = NoReturn
    /\ lints = <<>>
    /\ ServeOff /\ ReplOff

\* decoder.Decode returns io.EOF: break, return doc, nil
DecodeEOF ==
    /\ pc = "loop"
    /\ pos = Len(input)
    /\ ret' = [isNil |-> FALSE, doc |-> doc, err |-> NoErr]
    /\ pc' = "done"
    /\ UNCHANGED <<input, pos, doc, hash, diagrams, opts, out, again, lints>>
    /\ UNCHANGED <<serveVars, replVars>>

\* decoder.Decode returns another error: return nil, "yaml parse error"
DecodeError ==
    /\ pc = "loop"
    /\ pos < Len(input)
    /\ input[pos + 1].Kind = InvalidYAML
    /\ ret' = [isNil |-> TRUE, doc |-> NewDocument,
               err |-> ErrorfNoLine("yaml parse error")]
    /\ pc' = "done"
    /\ UNCHANGED <<input, pos, doc, hash, diagrams, opts, out, again, lints>>
    /\ UNCHANGED <<serveVars, replVars>>

\* afterDocument that skips a document that fails instead of returning.
afterDocumentSkipInvalid(r) ==
    /\ doc' = IF r.err # NoErr THEN doc ELSE [r.doc EXCEPT !.SubDocs = Append(@, r.subDoc)]
    /\ pos' = pos + 1
    /\ UNCHANGED <<pc, ret>>

\* Parse after parseDocument returned r: return nil, err, or
\* doc.SubDocs = append(doc.SubDocs, subDoc) and the next round.
afterDocument(r) ==
    IF r.err # NoErr
    THEN /\ ret' = [isNil |-> TRUE, doc |-> NewDocument, err |-> r.err]
         /\ pc' = "done"
         /\ UNCHANGED <<pos, doc>>
    ELSE /\ doc' = [r.doc EXCEPT !.SubDocs = Append(@, r.subDoc)]
         /\ pos' = pos + 1
         /\ UNCHANGED <<pc, ret>>

\* decoder.Decode yields a document: parseDocument(&root, doc, subDoc)
DecodeDocument ==
    /\ pc = "loop"
    /\ pos < Len(input)
    /\ input[pos + 1].Kind # InvalidYAML
    /\ afterDocument(parseDocument(input[pos + 1], doc, NewSubDoc))
    /\ UNCHANGED <<input, hash, diagrams, opts, out, again, lints>>
    /\ UNCHANGED <<serveVars, replVars>>

\* a nil pointer dereference: sd.Slices[name] of a name the map lacks
nilSlice(sd) == \E i \in 1..Len(sd.SliceOrder) : sd.SliceOrder[i] \notin DOMAIN sd.Slices

\* what Generate builds from the Document d: nothing for a Document
\* without SubDocs, the diagram data otherwise, a panic when a slice is nil
generated(d) ==
    IF Len(d.SubDocs) = 0 THEN [panic |-> FALSE, Documents |-> <<>>]
    ELSE IF \E i \in 1..Len(d.SubDocs) : nilSlice(d.SubDocs[i])
    THEN [panic |-> TRUE, Documents |-> <<>>]
    ELSE [panic |-> FALSE, Documents |-> buildDiagramData(hash, d)]

\* Generate that reverses the SliceOrder of the SubDocs it lays out.
GenerateReversingSliceOrder ==
    /\ pc = "done" /\ ~ret.isNil
    /\ out = <<>> /\ lints = <<>>
    /\ Len(diagrams) < MaxRuns
    /\ diagrams' = Append(diagrams, generated(ret.doc))
    /\ ret' = [ret EXCEPT !.doc.SubDocs =
                   [i \in 1..Len(@) |->
                       [@[i] EXCEPT !.SliceOrder =
                           [j \in 1..Len(@) |-> @[Len(@) + 1 - j]]]]]
    /\ UNCHANGED <<input, pos, doc, pc, hash, opts, out, again, lints>>
    /\ UNCHANGED <<serveVars, replVars>>

\* Generate creates an HTML diagram from the given document, the one Parse
\* returned; it reads the Document and writes nothing of it.  A command
\* parses the source for itself: a Document that is laid out is not the
\* one that is formatted.
Generate ==
    /\ pc = "done" /\ ~ret.isNil
    /\ out = <<>> /\ lints = <<>>
    /\ Len(diagrams) < MaxRuns
    /\ diagrams' = Append(diagrams, generated(ret.doc))
    /\ UNCHANGED <<input, pos, doc, pc, ret, hash, opts, out, again, lints>>
    /\ UNCHANGED <<serveVars, replVars>>

\* Format on the Document Parse returned, with one of the key styles; the
\* Document is the one the fmt command or the /format handler parsed
FormatDocument ==
    /\ pc = "done" /\ ~ret.isNil
    /\ diagrams = <<>> /\ out = <<>> /\ lints = <<>>
    /\ \E style \in KeyStyles :
           /\ opts' = [KeyStyle |-> style]
           /\ out' = <<Format(ret.doc, [KeyStyle |-> style])>>
    /\ UNCHANGED <<input, pos, doc, pc, ret, hash, diagrams, again, lints>>
    /\ UNCHANGED <<serveVars, replVars>>

\* Parse on the text Format wrote
ParseFormatted ==
    /\ Len(out) = 1 /\ again = NoReturn
    /\ again' = Parse(Decode(out[1]))
    /\ UNCHANGED <<input, pos, doc, pc, ret, hash, diagrams, opts, out, lints>>
    /\ UNCHANGED <<serveVars, replVars>>

\* Format on the Document Parse returned for the formatted text, with the
\* same Options
FormatAgain ==
    /\ Len(out) = 1 /\ ~again.isNil
    /\ out' = Append(out, Format(again.doc, opts))
    /\ UNCHANGED <<input, pos, doc, pc, ret, hash, diagrams, opts, again, lints>>
    /\ UNCHANGED <<serveVars, replVars>>

\* Lint on the Document Parse returned, by a new Linter with the
\* IgnoreRules of the configuration; the Document is the one the lint
\* command parsed
LintDocument ==
    /\ pc = "done" /\ ~ret.isNil
    /\ diagrams = <<>> /\ out = <<>> /\ lints = <<>>
    /\ \E ignore \in IgnoreSets : lints' = <<Lint(NewLinter(ignore), ret.doc)>>
    /\ UNCHANGED <<input, pos, doc, pc, ret, hash, diagrams, opts, out, again>>
    /\ UNCHANGED <<serveVars, replVars>>

Next ==
    \/ DecodeEOF \/ DecodeError \/ DecodeDocument \/ Generate
    \/ FormatDocument \/ ParseFormatted \/ FormatAgain \/ LintDocument

Spec == Init /\ [][Next]_vars

\* no command runs
CliOff ==
    /\ input = <<>> /\ pos = 0 /\ doc = NewDocument /\ pc = "off"
    /\ ret = NoReturn /\ hash = [i \in 1..HashLen |-> "0"]
    /\ diagrams = <<>> /\ opts = [KeyStyle |-> ""] /\ out = <<>>
    /\ again = NoReturn /\ lints = <<>>

\* ------------------------------------------------------------------ Start

\* Start before its first statement, for a file at its first modification
\* time
InitServe ==
    /\ CliOff /\ ReplOff
    /\ file \in {[content |-> c, mod |-> 1, final |-> last] :
                   c \in FileContents, last \in BOOLEAN}
    /\ state = [html |-> <<>>, hash |-> <<>>, lastMod |-> 0]
    /\ mu = [writer |-> FALSE, readers |-> 0]
    /\ start = [pc |-> "generate", html |-> <<>>]
    /\ watcher = [pc |-> "off", info |-> 0, newHTML |-> <<>>]
    /\ reader = [pc |-> "off", resp |-> <<>>]
    /\ stopped = FALSE

\* Start: html, err := generate(filePath, cfg); return err
StartGenerate ==
    /\ start.pc = "generate"
    /\ LET r == pageOf[file.content]
       IN  start' = IF r.err # "" THEN [start EXCEPT !.pc = "exited"]
                    ELSE [pc |-> "update", html |-> r.html]
    /\ UNCHANGED <<file, state, mu, watcher, reader, stopped, cliVars, replVars>>

\* Start: s := &state{}; s.update(html), before any goroutine runs
StartUpdate ==
    /\ start.pc = "update"
    /\ state' = [state EXCEPT !.html = start.html, !.hash = hashBytes(start.html)]
    /\ start' = [start EXCEPT !.pc = "stat"]
    /\ UNCHANGED <<file, mu, watcher, reader, stopped, cliVars, replVars>>

\* Start: info, err := os.Stat(filePath); s.lastMod = info.ModTime(); then
\* the watcher goroutine and the handlers run
StartStat ==
    /\ start.pc = "stat"
    /\ IF file.content.missing
       THEN /\ start' = [start EXCEPT !.pc = "exited"]
            /\ UNCHANGED <<state, watcher, reader>>
       ELSE /\ state' = [state EXCEPT !.lastMod = file.mod]
            /\ start' = [start EXCEPT !.pc = "serving"]
            /\ watcher' = [watcher EXCEPT !.pc = "select"]
            /\ reader' = [reader EXCEPT !.pc = "idle"]
    /\ UNCHANGED <<file, mu, stopped, cliVars, replVars>>

\* the file is written, removed or made again: its modification time stays
\* (a write within the granularity of the clock) or grows, and the write is
\* the last one or not
WriteFile ==
    /\ start.pc \notin {"off", "exited"}
    /\ ~file.final
    /\ \E c \in FileContents, m \in {file.mod, file.mod + 1}, last \in BOOLEAN :
           /\ m <= MaxMod
           /\ file' = [content |-> c, mod |-> m, final |-> last]
    /\ UNCHANGED <<state, mu, start, watcher, reader, stopped, cliVars, replVars>>

\* watcher, case <-ticker.C: info, err := os.Stat(filePath); continue on err
Tick ==
    /\ watcher.pc = "select" /\ ~stopped
    /\ watcher' = IF file.content.missing THEN watcher
                  ELSE [watcher EXCEPT !.pc = "check", !.info = file.mod]
    /\ UNCHANGED <<file, state, mu, start, reader, stopped, cliVars, replVars>>

\* watcher, case <-ctx.Done(): return
WatcherDone ==
    /\ watcher.pc = "select" /\ stopped
    /\ watcher' = [watcher EXCEPT !.pc = "returned"]
    /\ UNCHANGED <<file, state, mu, start, reader, stopped, cliVars, replVars>>

\* watcher: changed := info.ModTime().After(s.lastMod) under s.mu.RLock;
\* continue if !changed
Check ==
    /\ watcher.pc = "check" /\ ~mu.writer
    /\ watcher' = [watcher EXCEPT
                      !.pc = IF watcher.info > state.lastMod THEN "generate" ELSE "select"]
    /\ UNCHANGED <<file, state, mu, start, reader, stopped, cliVars, replVars>>

\* Regenerate that records the modification time when generate fails.
RegenerateRecordingFailure ==
    /\ watcher.pc = "generate"
    /\ LET r == pageOf[file.content]
       IN  IF r.err # ""
           THEN /\ watcher' = [watcher EXCEPT !.pc = "select"]
                /\ state' = [state EXCEPT !.lastMod = watcher.info]
           ELSE /\ watcher' = [watcher EXCEPT !.pc = "lastMod", !.newHTML = r.html]
                /\ UNCHANGED state
    /\ UNCHANGED <<file, mu, start, reader, stopped, cliVars, replVars>>

\* watcher: newHTML, err := generate(filePath, cfg); on err print and
\* continue
Regenerate ==
    /\ watcher.pc = "generate"
    /\ LET r == pageOf[file.content]
       IN  watcher' = IF r.err # "" THEN [watcher EXCEPT !.pc = "select"]
                      ELSE [watcher EXCEPT !.pc = "lastMod", !.newHTML = r.html]
    /\ UNCHANGED <<file, state, mu, start, reader, stopped, cliVars, replVars>>

\* watcher: s.mu.Lock(); s.lastMod = info.ModTime(); s.mu.Unlock()
SetLastMod ==
    /\ watcher.pc = "lastMod"
    /\ ~mu.writer /\ mu.readers = 0
    /\ state' = [state EXCEPT !.lastMod = watcher.info]
    /\ watcher' = [watcher EXCEPT !.pc = "update"]
    /\ UNCHANGED <<file, mu, start, reader, stopped, cliVars, replVars>>

\* watcher, s.update(newHTML): s.mu.Lock()
UpdateLock ==
    /\ watcher.pc = "update"
    /\ ~mu.writer /\ mu.readers = 0
    /\ mu' = [mu EXCEPT !.writer = TRUE]
    /\ watcher' = [watcher EXCEPT !.pc = "html"]
    /\ UNCHANGED <<file, state, start, reader, stopped, cliVars, replVars>>

\* s.update: s.html = html
UpdateHTML ==
    /\ watcher.pc = "html"
    /\ state' = [state EXCEPT !.html = watcher.newHTML]
    /\ watcher' = [watcher EXCEPT !.pc = "hash"]
    /\ UNCHANGED <<file, mu, start, reader, stopped, cliVars, replVars>>

\* s.update: s.hash = hashBytes(html)
UpdateHash ==
    /\ watcher.pc = "hash"
    /\ state' = [state EXCEPT !.hash = hashBytes(watcher.newHTML)]
    /\ watcher' = [watcher EXCEPT !.pc = "unlock"]
    /\ UNCHANGED <<file, mu, start, reader, stopped, cliVars, replVars>>

\* s.update: the deferred s.mu.Unlock(); the watcher prints and waits for
\* the next tick
UpdateUnlock ==
    /\ watcher.pc = "unlock"
    /\ mu' = [mu EXCEPT !.writer = FALSE]
    /\ watcher' = [watcher EXCEPT !.pc = "select"]
    /\ UNCHANGED <<file, state, start, reader, stopped, cliVars, replVars>>

\* a request for "/" or "/hash": getHTML or getHash takes s.mu.RLock(),
\* which waits while a writer holds the lock or is blocked in Lock
Request ==
    /\ reader.pc = "idle" /\ ~stopped
    /\ ~mu.writer /\ watcher.pc \notin {"lastMod", "update"}
    /\ \E get \in {"getHTML", "getHash"} : reader' = [reader EXCEPT !.pc = get]
    /\ mu' = [mu EXCEPT !.readers = @ + 1]
    /\ UNCHANGED <<file, state, start, watcher, stopped, cliVars, replVars>>

\* getHTML or getHash returns its field and releases the lock; the handler
\* writes the response
Respond ==
    /\ reader.pc \in {"getHTML", "getHash"}
    /\ reader' = [pc |-> "idle",
                  resp |-> IF reader.pc = "getHTML"
                           THEN [path |-> "/", body |-> state.html]
                           ELSE [path |-> "/hash", body |-> state.hash]]
    /\ mu' = [mu EXCEPT !.readers = @ - 1]
    /\ UNCHANGED <<file, state, start, watcher, stopped, cliVars, replVars>>

\* SIGINT: cancel() and server.Shutdown
Shutdown ==
    /\ start.pc = "serving" /\ ~stopped
    /\ stopped' = TRUE
    /\ UNCHANGED <<file, state, mu, start, watcher, reader, cliVars, replVars>>

\* the steps of the watcher goroutine
WatcherStep ==
    \/ Tick \/ WatcherDone \/ Check \/ Regenerate \/ SetLastMod
    \/ UpdateLock \/ UpdateHTML \/ UpdateHash \/ UpdateUnlock

NextServe ==
    \/ StartGenerate \/ StartUpdate \/ StartStat \/ WriteFile
    \/ WatcherStep \/ Request \/ Respond \/ Shutdown

SpecServe == InitServe /\ [][NextServe]_vars

\* the steps of the watcher other than its call of generate
WatcherRuns ==
    \/ Tick \/ WatcherDone \/ Check \/ SetLastMod
    \/ UpdateLock \/ UpdateHTML \/ UpdateHash \/ UpdateUnlock

\* the ticker keeps ticking, the watcher goroutine keeps running, and a
\* handler returns.  The call of generate returns: Regenerate is enabled
\* exactly while the watcher is at the call and every step of it leaves the
\* call, so weak fairness of Regenerate is that the watcher is again and
\* again not at the call.
FairServe ==
    /\ SpecServe
    /\ WF_vars(WatcherRuns) /\ WF_vars(Respond)
    /\ []<>(watcher.pc # "generate")

\* -------------------------------------------------------------- StartRepl

\* the /render requests in flight
MaxReqs == 2

\* the bodies posted to /render
Bodies == {OneSliceFile, TwoSliceFile, BadFile}

NoResponse == [HTML |-> <<>>, Error |-> NoErr, Lint |-> <<>>]

\* a request whose body is read: the handler is about to parse it
NewRequest(body) ==
    [pc |-> "parse", body |-> body, doc |-> NewDocument, html |-> <<>>,
     calls |-> <<>>, issues |-> <<>>, resp |-> NoResponse]

\* StartRepl: lint := linter.New() with the rules cfg.Lint.Ignore names, and
\* the handlers of the requests running
InitRepl ==
    /\ CliOff /\ ServeOff
    /\ \E ignore \in IgnoreSets : lint = NewLinter(ignore)
    /\ reqs \in [1..MaxReqs -> {NewRequest(body) : body \in Bodies}]

\* /render: doc, err := parser.Parse(body); respond with the error
RenderParse(i) ==
    /\ reqs[i].pc = "parse"
    /\ LET r == Parse(reqs[i].body.raw)
       IN  reqs' = [reqs EXCEPT ![i] =
                       IF r.isNil
                       THEN [@ EXCEPT !.pc = "done", !.resp.Error = r.err]
                       ELSE [@ EXCEPT !.pc = "generate", !.doc = r.doc]]
    /\ UNCHANGED <<lint, cliVars, serveVars>>

\* /render: html, err := gen.Generate(doc)
RenderGenerate(i) ==
    /\ reqs[i].pc = "generate"
    /\ reqs' = [reqs EXCEPT ![i].pc = "Lint",
                            ![i].html = fragmentOf(reqs[i].body.sha1, reqs[i].doc)]
    /\ UNCHANGED <<lint, cliVars, serveVars>>

\* Lint: l.issues = []Issue{}.  The calls of addIssue that pass IgnoreRules
\* are those of the Document alone: lintSlice reads no issue
LintReset(i) ==
    /\ reqs[i].pc = "Lint"
    /\ lint' = [lint EXCEPT !.issues = <<>>]
    /\ reqs' = [reqs EXCEPT ![i].pc = "lintSlice",
                            ![i].calls = Lint(NewLinter(lint.IgnoreRules), reqs[i].doc).issues]
    /\ UNCHANGED <<cliVars, serveVars>>

\* addIssue: append reads l.issues
AddIssueRead(i) ==
    /\ reqs[i].pc = "lintSlice" /\ reqs[i].calls # <<>>
    /\ reqs' = [reqs EXCEPT ![i].pc = "append", ![i].issues = lint.issues]
    /\ UNCHANGED <<lint, cliVars, serveVars>>

\* addIssue: l.issues is assigned the slice read, with the Issue appended
AddIssueWrite(i) ==
    /\ reqs[i].pc = "append"
    /\ lint' = [lint EXCEPT !.issues = Append(reqs[i].issues, Head(reqs[i].calls))]
    /\ reqs' = [reqs EXCEPT ![i].pc = "lintSlice", ![i].calls = Tail(@)]
    /\ UNCHANGED <<cliVars, serveVars>>

\* Lint: return l.issues
LintReturn(i) ==
    /\ reqs[i].pc = "lintSlice" /\ reqs[i].calls = <<>>
    /\ reqs' = [reqs EXCEPT ![i].pc = "respond", ![i].issues = lint.issues]
    /\ UNCHANGED <<lint, cliVars, serveVars>>

\* lintIssueJSON of every Issue
lintItems(issues) ==
    [k \in 1..Len(issues) |->
        [rule |-> issues[k].Rule, message |-> issues[k].Message,
         line |-> issues[k].Line, severity |-> issues[k].Severity]]

\* /render: the response with the HTML and the lint list
RenderRespond(i) ==
    /\ reqs[i].pc = "respond"
    /\ reqs' = [reqs EXCEPT ![i].pc = "done",
                            ![i].resp = [HTML |-> reqs[i].html, Error |-> NoErr,
                                         Lint |-> lintItems(reqs[i].issues)]]
    /\ UNCHANGED <<lint, cliVars, serveVars>>

NextRepl ==
    \E i \in 1..MaxReqs :
        \/ RenderParse(i) \/ RenderGenerate(i) \/ LintReset(i)
        \/ AddIssueRead(i) \/ AddIssueWrite(i) \/ LintReturn(i)
        \/ RenderRespond(i)

SpecRepl == InitRepl /\ [][NextRepl]_vars



\* ------------------------------------------------- reading the source tree

\* What the claims say about a source is read off the node tree itself, by
\* the grammar position of a node, without the validator.
Done == pc = "done"
Accepted == Done /\ ~ret.isNil
Rejected == Done /\ ret.isNil /\ ret.err # NoErr

Maps(S) == {n \in S : n.Kind = MappingNode}
Lists(S) == {n \in S : n.Kind = SequenceNode}
KeysOf(m) == {KeyAt(m, i).Value : i \in 1..NPairs(m)}
ValuesOf(m) == {ValueAt(m, i) : i \in 1..NPairs(m)}
ValuesAt(m, key) ==
    {ValueAt(m, i) : i \in {j \in 1..NPairs(m) : KeyAt(m, j).Value = key}}
Resolve(n) == IF n.Kind = AliasNode THEN n.Content[1] ELSE n
ItemsOf(l) == {Resolve(l.Content[i]) : i \in 1..Len(l.Content)}

\* the physical documents that have a root node, and the root mappings
WithRoot ==
    {d \in 1..Len(input) :
        input[d].Kind = DocumentNode /\ Len(input[d].Content) > 0}
Roots == Maps({input[d].Content[1] : d \in WithRoot})
\* the values of `slices`, of a slice name, of `tests`, of a test name
SlicesMaps == Maps(UNION {ValuesAt(r, kSlices) : r \in Roots})
SliceValues == UNION {ValuesOf(m) : m \in SlicesMaps}
ExtendedSlices == Maps(SliceValues)
TestMaps ==
    Maps(UNION {ValuesOf(m) :
                   m \in Maps(UNION {ValuesAt(x, kTests) : x \in ExtendedSlices})})
\* the items of the given, when or then lists
SectionItems(key) ==
    UNION {ItemsOf(l) : l \in Lists(UNION {ValuesAt(t, key) : t \in TestMaps})}
\* the items of the element lists of slices: direct form and steps
StepItems ==
    UNION {ItemsOf(l) :
              l \in Lists(SliceValues
                          \cup UNION {ValuesAt(x, kSteps) : x \in ExtendedSlices})}

\* the type aliases as the grammar lists them
AliasesOf(type) ==
    CASE type = ElementTrigger ->
             {<<"t">>, <<"t", "r", "g">>, <<"t", "r", "i", "g", "g", "e", "r">>}
      [] type = ElementCommand ->
             {<<"c">>, <<"c", "m", "d">>, <<"c", "o", "m", "m", "a", "n", "d">>}
      [] type = ElementEvent ->
             {<<"e">>, <<"e", "v", "t">>, <<"e", "v", "e", "n", "t">>}
      [] type = ElementException ->
             {<<"x">>, <<"e", "r", "r">>,
              <<"e", "x", "c", "e", "p", "t", "i", "o", "n">>}
      [] type = ElementView -> {<<"v">>, <<"v", "i", "e", "w">>}
\* an item that is an element mapping of one of the types
ItemOfType(item, types) ==
    /\ item.Kind = MappingNode
    /\ \E type \in types : KeysOf(item) \cap AliasesOf(type) # {}

\* the Slice objects and the tests of the returned Document
ReturnedSlices ==
    {ret.doc.Slices[n] : n \in DOMAIN ret.doc.Slices}
    \cup UNION {{ret.doc.SubDocs[i].Slices[n] : n \in DOMAIN ret.doc.SubDocs[i].Slices} :
                   i \in 1..Len(ret.doc.SubDocs)}
ReturnedTests == UNION {{x.Tests[t] : t \in DOMAIN x.Tests} : x \in ReturnedSlices}
TypesIn(elems) == {elems[i].Type : i \in 1..Len(elems)}

\* the document whose validation ended Parse with an error
DocumentValid(d) ==
    /\ input[d].Kind # InvalidYAML
    /\ parseDocument(input[d], NewDocument, NewSubDoc).err = NoErr

\* ----------------------------------------------------------------- claims

\* C1: Parse is fail-fast with no partial result.  Once Parse has returned:
\* it returns a Document or an error, never both and never neither; if any
\* physical document of the source is invalid (also one that follows valid
\* documents) it returns the error and no Document; a Document is returned
\* only when every physical document validates, and then it holds one
\* SubDoc per document.
C1_FailFast ==
    Done =>
        /\ ret.isNil <=> ret.err # NoErr
        /\ (\E d \in 1..Len(input) : ~DocumentValid(d)) => Rejected
        /\ ~ret.isNil =>
              /\ \A d \in 1..Len(input) : DocumentValid(d)
              /\ Len(ret.doc.SubDocs) = Len(input)

\* C1 witness: Parse returned an error for the third document after two
\* documents validated.
C1_Witness ==
    /\ Rejected
    /\ pos = 2
    /\ DocumentValid(1) /\ DocumentValid(2) /\ ~DocumentValid(3)

\* C2: every error the validator returns for a schema or semantic violation
\* carries the 1-based line of the offending node (a YAML syntax error comes
\* from the decoder, not from the validator).
C2_ErrorsCarryLine ==
    (Rejected /\ ret.err.msg # "yaml parse error") =>
        /\ ret.err.located
        /\ ret.err.line >= 1

\* C3: in a returned Document every element of Given is an Event or a View,
\* every element of When a Command, every element of Then an Event, a View
\* or an Exception; and a source with a Trigger in a test section, a Command
\* or Exception in given, a Command in then, or an Event, View or Exception
\* in when is rejected.
C3_TestSectionTypes ==
    /\ Accepted =>
          \A t \in ReturnedTests :
              /\ TypesIn(t.Given) \subseteq {ElementEvent, ElementView}
              /\ TypesIn(t.When) \subseteq {ElementCommand}
              /\ TypesIn(t.Then) \subseteq {ElementEvent, ElementView, ElementException}
    /\ (/\ Done
        /\ \/ \E item \in SectionItems(kGiven) :
                  ItemOfType(item, {ElementTrigger, ElementCommand, ElementException})
           \/ \E item \in SectionItems(kWhen) :
                  ItemOfType(item, {ElementTrigger, ElementEvent, ElementView,
                                    ElementException})
           \/ \E item \in SectionItems(kThen) :
                  ItemOfType(item, {ElementTrigger, ElementCommand}))
       => Rejected

\* C3 witness: a returned test with elements in given, when and then.
C3_Witness ==
    /\ Accepted
    /\ \E t \in ReturnedTests : Len(t.Given) > 0 /\ Len(t.When) > 0 /\ Len(t.Then) > 0

\* the elements of the returned Document: steps and test sections
ReturnedSteps == UNION {Range(x.Elements) : x \in ReturnedSlices}
ReturnedTestElements ==
    UNION {Range(t.Given) \cup Range(t.When) \cup Range(t.Then) : t \in ReturnedTests}

\* a source that is one document with one slice in direct form with one
\* element mapping with one key, a type alias; its value and its element
OneElementSource ==
    /\ Len(input) = 1 /\ Cardinality(Roots) = 1
    /\ \A r \in Roots : NPairs(r) = 1 /\ KeysOf(r) = {kSlices}
    /\ Cardinality(SlicesMaps) = 1
    /\ \A m \in SlicesMaps : NPairs(m) = 1
    /\ \A v \in SliceValues : v.Kind = SequenceNode /\ Len(v.Content) = 1
    /\ \A item \in StepItems :
           /\ item.Kind = MappingNode /\ NPairs(item) = 1
           /\ KeysOf(item) \subseteq UNION {AliasesOf(type) : type \in ElementTypes}
TheValue == (CHOOSE item \in StepItems : TRUE).Content[2].Value
TheElement == CHOOSE e \in ReturnedSteps : TRUE

\* a text without its leading and trailing spaces, and the place of its
\* first '/'
Strip(q) ==
    LET at == {i \in 1..Len(q) : q[i] # " "}
    IN  IF at = {} THEN <<>>
        ELSE SubSeq(q, CHOOSE i \in at : \A j \in at : i <= j,
                       CHOOSE i \in at : \A j \in at : i >= j)
HasSlash(q) == \E i \in 1..Len(q) : q[i] = "/"
FirstSlash(q) ==
    CHOOSE i \in 1..Len(q) : q[i] = "/" /\ \A j \in 1..(i - 1) : q[j] # "/"

\* C4: swimlane extraction splits the trimmed type-key value at its first
\* '/'.  For a source of one element with value v and t = v trimmed: if t
\* is empty or ends with '/' the source is rejected; otherwise it is
\* accepted, without '/' in t Swimlane is "" and Name is t, and with one
\* Swimlane is the trimmed text before the first '/' and Name the trimmed
\* text after it.  So "a/a" gives ("a", "a"), "a" gives ("", "a"), "/a"
\* gives ("", "a"), "a/a/a" gives ("a", "a/a"), and "a/", "/", "a/ " are
\* rejected.
C4_SwimlaneExtraction ==
    (Done /\ OneElementSource) =>
        LET t == Strip(TheValue)
            k == FirstSlash(t)
        IN  /\ (t = <<>> \/ t[Len(t)] = "/") => Rejected
            /\ (t # <<>> /\ t[Len(t)] # "/") => Accepted
            /\ (Accepted /\ ~HasSlash(t)) =>
                   TheElement.Swimlane = <<>> /\ TheElement.Name = t
            /\ (Accepted /\ HasSlash(t)) =>
                   /\ TheElement.Swimlane = Strip(SubSeq(t, 1, k - 1))
                   /\ TheElement.Name = Strip(SubSeq(t, k + 1, Len(t)))
            /\ TheValue = <<"a", "/", "a">> =>
                   /\ Accepted
                   /\ TheElement.Swimlane = <<"a">> /\ TheElement.Name = <<"a">>
            /\ TheValue = <<"a">> =>
                   /\ Accepted
                   /\ TheElement.Swimlane = <<>> /\ TheElement.Name = <<"a">>
            /\ TheValue = <<"/", "a">> =>
                   /\ Accepted
                   /\ TheElement.Swimlane = <<>> /\ TheElement.Name = <<"a">>
            /\ TheValue = <<"a", "/", "a", "/", "a">> =>
                   /\ Accepted
                   /\ TheElement.Swimlane = <<"a">>
                   /\ TheElement.Name = <<"a", "/", "a">>
            /\ TheValue \in {<<"a", "/">>, <<"/">>, <<"a", "/", " ">>} => Rejected

\* C4 witness: the value "a/a/a" was accepted and split at its first '/'.
C4_Witness ==
    /\ Accepted /\ OneElementSource
    /\ TheValue = <<"a", "/", "a", "/", "a">>
    /\ TheElement.Name = <<"a", "/", "a">>

\* C5: in a returned Document every element, in slice steps and in test
\* sections, has a non-empty Name that does not end with '/'; so Name is
\* never empty when Swimlane is non-empty.
C5_NameNeverEmpty ==
    Accepted =>
        \A e \in ReturnedSteps \cup ReturnedTestElements :
            /\ e.Name # <<>>
            /\ e.Name[Len(e.Name)] # "/"
            /\ e.Swimlane # <<>> => e.Name # <<>>

\* C5 witness: a returned Document with a step that has a swimlane and an
\* element in a test section.
C5_Witness ==
    /\ Accepted
    /\ \E e \in ReturnedSteps : e.Swimlane # <<>>
    /\ ReturnedTestElements # {}

\* the node a returned Slice was built from: the value of the pair addr[3]
\* of the slices mapping at pair addr[2] of the root of document addr[1]
SliceNode(x) ==
    ValueAt(ValueAt(input[x.addr[1]].Content[1], x.addr[2]), x.addr[3])
\* a slice value in mapping form with a null among its steps values
HasNullSteps(n) ==
    n.Kind = MappingNode /\ \E v \in ValuesAt(n, kSteps) : isNullNode(v)
\* an empty sequence
IsEmptyList(n) == n.Kind = SequenceNode /\ Len(n.Content) = 0
\* a source of documents whose roots are mappings with no other key than
\* slices, every value of slices a mapping
OnlySlices ==
    /\ \A d \in 1..Len(input) : d \in WithRoot /\ input[d].Content[1].Kind = MappingNode
    /\ \A r \in Roots : KeysOf(r) \subseteq {kSlices}
    /\ \A r \in Roots : \A v \in ValuesAt(r, kSlices) : v.Kind = MappingNode

\* C6: a slice whose value is an explicit null is accepted as a placeholder
\* Slice with zero elements: a returned Slice built from a null has no
\* elements and no tests, and a source whose slice values are all null is
\* accepted with every slice name in Document.Slices.  A source with a slice
\* whose value is an empty sequence is rejected, and so is one with an
\* extended slice that has an empty sequence as a steps value.  So a
\* returned Slice with zero elements was built from a null slice value or
\* from a mapping with a null steps value.
C6_EmptySlices ==
    /\ Accepted =>
          \A x \in ReturnedSlices :
              /\ isNullNode(SliceNode(x)) =>
                     Len(x.Elements) = 0 /\ DOMAIN x.Tests = {}
              /\ Len(x.Elements) = 0 =>
                     isNullNode(SliceNode(x)) \/ HasNullSteps(SliceNode(x))
    /\ (Done /\ OnlySlices /\ \A v \in SliceValues : isNullNode(v)) =>
          /\ Accepted
          /\ DOMAIN ret.doc.Slices = UNION {KeysOf(m) : m \in SlicesMaps}
    /\ (Done /\ \E v \in SliceValues : IsEmptyList(v)) => Rejected
    /\ (Done /\ \E x \in ExtendedSlices :
                   \E v \in ValuesAt(x, kSteps) : IsEmptyList(v)) => Rejected

\* C6 witness: a returned Document with a placeholder Slice built from a
\* null and a Slice with elements.
C6_Witness ==
    /\ Accepted
    /\ \E x \in ReturnedSlices : isNullNode(SliceNode(x)) /\ Len(x.Elements) = 0
    /\ \E x \in ReturnedSlices : Len(x.Elements) > 0

\* a tests value the validator takes: null, or a mapping of test names to
\* null or to a mapping with a when list of one Command
ValidTests(v) ==
    \/ isNullNode(v)
    \/ /\ v.Kind = MappingNode
       /\ \A t \in ValuesOf(v) :
              \/ isNullNode(t)
              \/ /\ t.Kind = MappingNode /\ NPairs(t) = 1
                 /\ KeyAt(t, 1).Value = kWhen
                 /\ ValueAt(t, 1).Kind = SequenceNode
                 /\ Len(ValueAt(t, 1).Content) = 1
                 /\ ItemOfType(ValueAt(t, 1).Content[1], {ElementCommand})
\* a source that is one document with one slice, in extended form
OneExtendedSlice ==
    /\ Len(input) = 1 /\ OnlySlices
    /\ \A r \in Roots : NPairs(r) = 1
    /\ \A m \in SlicesMaps : NPairs(m) = 1
    /\ Cardinality(ExtendedSlices) = 1
TheSlice == CHOOSE x \in ExtendedSlices : TRUE

\* C7: a source with an extended slice that has no steps key is rejected,
\* wherever its other keys stand and also when its tests value is valid; a
\* source with an extended slice that has a key other than steps and tests
\* is rejected; a source of one extended slice whose steps values are null
\* and whose tests values are valid is accepted, and every returned Slice
\* built from a mapping whose steps values are all null has zero elements.
C7_ExtendedSliceKeys ==
    /\ (Done /\ \E x \in ExtendedSlices : kSteps \notin KeysOf(x)) => Rejected
    /\ (Done /\ \E x \in ExtendedSlices : ~(KeysOf(x) \subseteq {kSteps, kTests}))
           => Rejected
    /\ (/\ Done /\ OneExtendedSlice
        /\ KeysOf(TheSlice) \subseteq {kSteps, kTests}
        /\ kSteps \in KeysOf(TheSlice)
        /\ \A v \in ValuesAt(TheSlice, kSteps) : isNullNode(v)
        /\ \A v \in ValuesAt(TheSlice, kTests) : ValidTests(v))
           => Accepted
    /\ Accepted =>
          \A x \in ReturnedSlices :
              (/\ SliceNode(x).Kind = MappingNode
               /\ \A v \in ValuesAt(SliceNode(x), kSteps) : isNullNode(v))
                  => Len(x.Elements) = 0

\* C7 witness: Parse rejected a source of one extended slice whose only
\* key is tests, with a valid test in it, for its missing steps.
C7_Witness ==
    /\ Rejected /\ OneExtendedSlice
    /\ KeysOf(TheSlice) = {kTests}
    /\ \A v \in ValuesAt(TheSlice, kTests) : ValidTests(v) /\ v.Kind = MappingNode
    /\ ret.err.msg = "extended slice must have 'steps'"

\* the element items of a source: of slices and of test sections
ElementItems ==
    StepItems \cup SectionItems(kGiven) \cup SectionItems(kWhen) \cup SectionItems(kThen)
TypeAliases == UNION {AliasesOf(type) : type \in ElementTypes}
\* the pairs of an element mapping whose key is a type alias
TypePairs(item) == {i \in 1..NPairs(item) : KeyAt(item, i).Value \in TypeAliases}
\* an element mapping as the grammar wants it: one type key, the rest props
WellKeyed(item) ==
    /\ Cardinality(TypePairs(item)) = 1
    /\ \A i \in 1..NPairs(item) : KeyAt(item, i).Value \in TypeAliases \cup {kProps}
\* the element list a returned Slice was built from: the slice value in
\* direct form, the last steps value in extended form
StepsNode(x) ==
    LET n == SliceNode(x)
        at == {i \in 1..NPairs(n) : KeyAt(n, i).Value = kSteps}
    IN  IF n.Kind = MappingNode
        THEN ValueAt(n, CHOOSE i \in at : \A j \in at : i >= j)
        ELSE n

\* C8: a source with an element mapping that has no type-alias key, or two
\* or more (aliases of one type or of two), or a key that is neither a type
\* alias nor props, is rejected; in a returned Document the Type of each
\* step is the type its item's alias key stands for.
C8_ElementKeys ==
    /\ (Done /\ \E item \in Maps(ElementItems) : ~WellKeyed(item)) => Rejected
    /\ Accepted =>
          /\ \A item \in Maps(ElementItems) : WellKeyed(item)
          /\ \A x \in ReturnedSlices :
                 Len(x.Elements) > 0 =>
                     LET l == StepsNode(x)
                     IN  /\ l.Kind = SequenceNode
                         /\ Len(l.Content) = Len(x.Elements)
                         /\ \A i \in 1..Len(x.Elements) :
                                KeysOf(Resolve(l.Content[i]))
                                    \cap AliasesOf(x.Elements[i].Type) # {}

\* C8 witness: Parse rejected an element mapping with two aliases of one
\* type, for its multiple type keys.
C8_Witness ==
    /\ Rejected
    /\ \E item \in Maps(StepItems) :
           /\ NPairs(item) = 2
           /\ \E type \in ElementTypes :
                  /\ KeyAt(item, 1).Value \in AliasesOf(type)
                  /\ KeyAt(item, 2).Value \in AliasesOf(type)
                  /\ KeyAt(item, 1).Value # KeyAt(item, 2).Value
    /\ ret.err.msg = "element has multiple type keys"

\* the slice names physical document d defines
DefinedIn(d) ==
    IF d \in WithRoot /\ input[d].Content[1].Kind = MappingNode
    THEN UNION {KeysOf(m) : m \in Maps(ValuesAt(input[d].Content[1], kSlices))}
    ELSE {}
\* the last SubDoc that defines name
LastDefining(name) ==
    CHOOSE i \in 1..Len(ret.doc.SubDocs) :
        /\ name \in DOMAIN ret.doc.SubDocs[i].Slices
        /\ \A j \in (i + 1)..Len(ret.doc.SubDocs) :
               name \notin DOMAIN ret.doc.SubDocs[j].Slices

\* C9: in a returned Document the key set of Document.Slices is the union
\* of the key sets of the SubDoc.Slices, Document.Slices[name] is the Slice
\* object (the same address) that the highest-index SubDoc defining name
\* holds, and SubDoc i holds exactly the names physical document i defines,
\* each with a Slice object built from document i.
C9_MergeLastWins ==
    Accepted =>
        /\ DOMAIN ret.doc.Slices =
               UNION {DOMAIN ret.doc.SubDocs[i].Slices : i \in 1..Len(ret.doc.SubDocs)}
        /\ \A name \in DOMAIN ret.doc.Slices :
               ret.doc.Slices[name] = ret.doc.SubDocs[LastDefining(name)].Slices[name]
        /\ \A i \in 1..Len(ret.doc.SubDocs) :
               /\ DOMAIN ret.doc.SubDocs[i].Slices = DefinedIn(i)
               /\ \A name \in DefinedIn(i) :
                      /\ ret.doc.SubDocs[i].Slices[name].addr[1] = i
                      /\ ret.doc.SubDocs[i].Slices[name].Name = name
                      /\ KeyAt(ValueAt(input[i].Content[1],
                                       ret.doc.SubDocs[i].Slices[name].addr[2]),
                               ret.doc.SubDocs[i].Slices[name].addr[3]).Value = name

\* C9 witness: a returned Document of three SubDocs, the first and the
\* second with a slice a, where Document.Slices holds the second's Slice
\* object while the first SubDoc keeps its own.
C9_Witness ==
    /\ Accepted
    /\ Len(ret.doc.SubDocs) = 3
    /\ sA \in DOMAIN ret.doc.SubDocs[1].Slices
    /\ sA \in DOMAIN ret.doc.SubDocs[2].Slices
    /\ sA \notin DOMAIN ret.doc.SubDocs[3].Slices
    /\ ret.doc.Slices[sA] = ret.doc.SubDocs[2].Slices[sA]
    /\ ret.doc.Slices[sA] # ret.doc.SubDocs[1].Slices[sA]

\* the keys of a mapping in source order
KeysInOrder(m) == [i \in 1..NPairs(m) |-> KeyAt(m, i).Value]
\* the slice names of a root mapping in source order, from pair i on
RECURSIVE NamesFrom(_, _)
NamesFrom(root, i) ==
    IF i > NPairs(root) THEN <<>>
    ELSE (IF KeyAt(root, i).Value = kSlices /\ ValueAt(root, i).Kind = MappingNode
          THEN KeysInOrder(ValueAt(root, i)) ELSE <<>>)
         \o NamesFrom(root, i + 1)
\* the slice names of physical document d in source order
NamesInOrder(d) ==
    IF d \in WithRoot /\ input[d].Content[1].Kind = MappingNode
    THEN NamesFrom(input[d].Content[1], 1)
    ELSE <<>>

\* C10: in a returned Document SubDocs holds one SubDoc per physical
\* document in source order, the SliceOrder of each SubDoc is the slice
\* names of its document in the order they stand in the source, and the
\* Elements of each Slice hold one element per item of its element list, in
\* the items' order.
C10_InsertionOrder ==
    Accepted =>
        /\ Len(ret.doc.SubDocs) = Len(input)
        /\ \A d \in 1..Len(ret.doc.SubDocs) :
               /\ ret.doc.SubDocs[d].SliceOrder = NamesInOrder(d)
               /\ \A name \in DOMAIN ret.doc.SubDocs[d].Slices :
                      ret.doc.SubDocs[d].Slices[name].addr[1] = d
        /\ \A x \in ReturnedSlices :
               LET l == StepsNode(x)
               IN  IF l.Kind = SequenceNode
                   THEN /\ Len(x.Elements) = Len(l.Content)
                        /\ \A i \in 1..Len(l.Content) :
                               x.Elements[i].Line = Resolve(l.Content[i]).Line
                   ELSE Len(x.Elements) = 0

\* the last value a mapping gives a key
LastValueAt(m, key) ==
    LET at == {i \in 1..NPairs(m) : KeyAt(m, i).Value = key}
    IN  ValueAt(m, CHOOSE i \in at : \A j \in at : i >= j)
\* the node the test name of a returned Slice x was built from: the last
\* pair of that name in the last tests value of the slice's mapping
TestNode(x, name) == LastValueAt(LastValueAt(SliceNode(x), kTests), name)
\* the number of elements the last value of a section key stands for
SectionLen(n, key) ==
    IF isNullNode(LastValueAt(n, key)) THEN 0
    ELSE Len(LastValueAt(n, key).Content)

\* C11: for every test of a returned Document, built from the node n: if n
\* is null the three flags are false and the three lists empty; otherwise
\* HasGiven, HasWhen and HasThen are true exactly when n has the key given,
\* when and then, a section without its key is empty, and a section whose
\* key has a null value is empty with its flag true.
C11_HasFlags ==
    Accepted =>
        \A x \in ReturnedSlices : \A name \in DOMAIN x.Tests :
            LET n == TestNode(x, name)
                t == x.Tests[name]
            IN  IF isNullNode(n)
                THEN /\ ~t.HasGiven /\ ~t.HasWhen /\ ~t.HasThen
                     /\ t.Given = <<>> /\ t.When = <<>> /\ t.Then = <<>>
                ELSE /\ t.HasGiven <=> kGiven \in KeysOf(n)
                     /\ t.HasWhen <=> kWhen \in KeysOf(n)
                     /\ t.HasThen <=> kThen \in KeysOf(n)
                     /\ Len(t.Given) =
                            IF kGiven \in KeysOf(n) THEN SectionLen(n, kGiven) ELSE 0
                     /\ Len(t.When) =
                            IF kWhen \in KeysOf(n) THEN SectionLen(n, kWhen) ELSE 0
                     /\ Len(t.Then) =
                            IF kThen \in KeysOf(n) THEN SectionLen(n, kThen) ELSE 0

\* C11 witness: a returned test built from a mapping with a null given, a
\* when with an element and no then.
C11_Witness ==
    /\ Accepted
    /\ \E x \in ReturnedSlices : \E name \in DOMAIN x.Tests :
           /\ TestNode(x, name).Kind = MappingNode
           /\ KeysOf(TestNode(x, name)) = {kGiven, kWhen}
           /\ isNullNode(LastValueAt(TestNode(x, name), kGiven))
           /\ x.Tests[name].HasGiven /\ x.Tests[name].Given = <<>>
           /\ x.Tests[name].HasWhen /\ Len(x.Tests[name].When) = 1
           /\ ~x.Tests[name].HasThen

\* ----------------------------------------------------- claims on the layout

\* the SubDocs of the returned Document and what a call of Generate built
\* for SubDoc i
SubDocs == ret.doc.SubDocs
Generated == Accepted /\ Len(diagrams) > 0 /\ Len(SubDocs) > 0
Data(i) == diagrams[1].Documents[i]
\* the Slice of the k-th entry of the SliceOrder of a SubDoc
SliceOf(sd, k) == sd.Slices[sd.SliceOrder[k]]
\* the sum of max(1, number of elements) over the entries 1..k of SliceOrder
RECURSIVE SumWidths(_, _)
SumWidths(sd, k) ==
    IF k = 0 THEN 0
    ELSE SumWidths(sd, k - 1)
         + (IF Len(SliceOf(sd, k).Elements) > 1 THEN Len(SliceOf(sd, k).Elements) ELSE 1)
\* some step element of some slice of the SubDoc has a swimlane
AnySwimlane(sd) ==
    \E name \in DOMAIN sd.Slices :
        \E e \in Range(sd.Slices[name].Elements) : e.Swimlane # <<>>

\* C12: for every SubDoc, TotalColumns is r plus the sum over the entries of
\* SliceOrder of max(1, number of elements of the slice), r being 1 if some
\* step element of some slice of the SubDoc has a non-empty Swimlane and 0
\* otherwise; r is HasSwimlanes, and the elements of tests do not count.
C12_TotalColumns ==
    Generated =>
        \A i \in 1..Len(SubDocs) :
            /\ Data(i).HasSwimlanes <=> AnySwimlane(SubDocs[i])
            /\ Data(i).TotalColumns =
                   (IF AnySwimlane(SubDocs[i]) THEN 1 ELSE 0)
                   + SumWidths(SubDocs[i], Len(SubDocs[i].SliceOrder))

\* the slice column emitted for the k-th entry of the SliceOrder of SubDoc
\* i: the columns follow the swimlane column when there is one
ColumnOf(i, k) ==
    Data(i).SliceColumns[k + (IF Data(i).HasSwimlanes THEN 1 ELSE 0)]
LastCol(c) == c.StartCol + c.Span - 1

\* C13: for every SubDoc the slice columns tile the grid: there is one per
\* entry of SliceOrder, the first starts at column 2 with swimlanes and at
\* column 1 without, each following one starts at the start of the one
\* before plus its span, and the last ends at TotalColumns.  With a of 2
\* elements, b of 3 and a swimlane: a is 2-3, b is 4-6, TotalColumns 6.
C13_ColumnsTile ==
    Generated =>
        \A i \in 1..Len(SubDocs) :
            LET n == Len(SubDocs[i].SliceOrder)
                first == IF Data(i).HasSwimlanes THEN 2 ELSE 1
            IN  /\ Len(Data(i).SliceColumns) = n + first - 1
                /\ n > 0 =>
                       /\ ColumnOf(i, 1).StartCol = first
                       /\ \A k \in 2..n :
                              ColumnOf(i, k).StartCol =
                                  ColumnOf(i, k - 1).StartCol + ColumnOf(i, k - 1).Span
                       /\ LastCol(ColumnOf(i, n)) = Data(i).TotalColumns
                /\ (/\ SubDocs[i].SliceOrder = <<sA, sB>>
                    /\ Len(SubDocs[i].Slices[sA].Elements) = 2
                    /\ Len(SubDocs[i].Slices[sB].Elements) = 3
                    /\ Data(i).HasSwimlanes)
                       => /\ ColumnOf(i, 1).StartCol = 2 /\ LastCol(ColumnOf(i, 1)) = 3
                          /\ ColumnOf(i, 2).StartCol = 4 /\ LastCol(ColumnOf(i, 2)) = 6
                          /\ Data(i).TotalColumns = 6

\* the step elements of a SubDoc as the scan meets them: the slices of the
\* entries 1..k of SliceOrder, the elements of each in their order
RECURSIVE Flat(_, _)
Flat(sd, k) ==
    IF k = 0 THEN <<>> ELSE Flat(sd, k - 1) \o SliceOf(sd, k).Elements
Scan(sd) == Flat(sd, Len(sd.SliceOrder))
\* the first place in the scan of an element of one of the types with lane
FirstAt(sd, types, lane) ==
    CHOOSE p \in 1..Len(Scan(sd)) :
        /\ Scan(sd)[p].Type \in types /\ Scan(sd)[p].Swimlane = lane
        /\ \A q \in 1..(p - 1) :
               ~(Scan(sd)[q].Type \in types /\ Scan(sd)[q].Swimlane = lane)
\* lanes is the duplicate-free list of the swimlanes of the elements of
\* the types, in the order of their first appearance in the scan
LanesOf(sd, types, lanes) ==
    /\ Cardinality(Range(lanes)) = Len(lanes)
    /\ Range(lanes) = {e.Swimlane : e \in {x \in Range(Scan(sd)) : x.Type \in types}}
    /\ \A p, q \in 1..Len(lanes) :
           p < q => FirstAt(sd, types, lanes[p]) < FirstAt(sd, types, lanes[q])

\* C14: TriggerLanes is the duplicate-free list of the Swimlane values of
\* the Trigger step elements in the order of their first appearance, slices
\* scanned in SliceOrder and elements in slice order, the empty string a
\* lane like the others; EventLanes is the same over Event and Exception
\* elements; a Command or View adds no lane, and HasMainRow is true exactly
\* when there is one.
C14_Lanes ==
    Generated =>
        \A i \in 1..Len(SubDocs) :
            /\ LanesOf(SubDocs[i], {ElementTrigger}, Data(i).layout.triggerLanes)
            /\ LanesOf(SubDocs[i], {ElementEvent, ElementException},
                       Data(i).layout.eventLanes)
            /\ Data(i).layout.hasMainRow <=>
                   \E e \in Range(Scan(SubDocs[i])) :
                       e.Type \in {ElementCommand, ElementView}

\* C14 witness: a layout whose trigger lanes are "a" and then the empty
\* string, with a main row.
C14_Witness ==
    /\ Generated
    /\ \E i \in 1..Len(SubDocs) :
           /\ Data(i).layout.triggerLanes = <<sA, <<>>>>
           /\ Data(i).layout.hasMainRow

\* some step element of some slice of the SubDoc is a Command or a View,
\* and some slice of the SubDoc has a test
AnyMain(sd) ==
    \E name \in DOMAIN sd.Slices :
        \E e \in Range(sd.Slices[name].Elements) :
            e.Type \in {ElementCommand, ElementView}
AnyTests(sd) == \E name \in DOMAIN sd.Slices : DOMAIN sd.Slices[name].Tests # {}
\* the place of a row class in the order of the groups
GroupOf(class) ==
    CASE class = rowTriggers -> 1 [] class = rowMain -> 2
      [] class = rowEvents -> 3 [] class = rowTests -> 4

\* C15: the rows of a SubDoc are one trigger row per entry of TriggerLanes
\* in lane order, then one main row iff some step element is a Command or a
\* View, then one event row per entry of EventLanes in lane order, then one
\* tests row iff some slice has a test; their number is |TriggerLanes| + (1
\* if main row) + |EventLanes| + (1 if tests), and no row of an earlier
\* group follows a row of a later group.
C15_RowOrder ==
    Generated =>
        \A i \in 1..Len(SubDocs) :
            LET rows == Data(i).Rows
                tl == Data(i).layout.triggerLanes
                el == Data(i).layout.eventLanes
                m == IF AnyMain(SubDocs[i]) THEN 1 ELSE 0
                t == IF AnyTests(SubDocs[i]) THEN 1 ELSE 0
            IN  /\ Len(rows) = Len(tl) + m + Len(el) + t
                /\ \A k \in 1..Len(rows) :
                       /\ k <= Len(tl) =>
                              rows[k].Class = rowTriggers /\ rows[k].Swimlane = tl[k]
                       /\ (m = 1 /\ k = Len(tl) + 1) => rows[k].Class = rowMain
                       /\ (k > Len(tl) + m /\ k <= Len(tl) + m + Len(el)) =>
                              /\ rows[k].Class = rowEvents
                              /\ rows[k].Swimlane = el[k - Len(tl) - m]
                       /\ (t = 1 /\ k = Len(tl) + m + Len(el) + 1) =>
                              rows[k].Class = rowTests
                /\ \A j, k \in 1..Len(rows) :
                       j < k => GroupOf(rows[j].Class) <= GroupOf(rows[k].Class)

\* the element rows of SubDoc i (trigger, main and event rows), and what
\* they emit for the k-th entry of SliceOrder: <<row, place in the cell>>
ElementRows(i) ==
    {r \in 1..Len(Data(i).Rows) : Data(i).Rows[r].Class # rowTests}
Emitted(i, k) ==
    {<<r, q>> \in ElementRows(i) \X (1..Len(SliceOf(SubDocs[i], k).Elements)) :
        q <= Len(Data(i).Rows[r].Slices[k].Elements)}
EmittedData(i, k, rq) == Data(i).Rows[rq[1]].Slices[k].Elements[rq[2]]

\* C16: in the element rows, for every entry of SliceOrder, the grid column
\* of each emitted element is its 1-based position in the Elements of its
\* slice: every position of the slice is the grid column of exactly one
\* emitted element, which has the Name and type of the element at that
\* position, and nothing else is emitted; so no two emitted elements of a
\* slice share a grid column and every grid column is between 1 and the
\* width of the slice.
C16_GridColumns ==
    Generated =>
        \A i \in 1..Len(SubDocs) : \A k \in 1..Len(SubDocs[i].SliceOrder) :
            LET elems == SliceOf(SubDocs[i], k).Elements
            IN  /\ \A r \in ElementRows(i) :
                       Len(Data(i).Rows[r].Slices[k].Elements) <= Len(elems)
                /\ Cardinality(Emitted(i, k)) = Len(elems)
                /\ \A rq \in Emitted(i, k) :
                       /\ EmittedData(i, k, rq).GridCol \in 1..Len(elems)
                       /\ EmittedData(i, k, rq).GridCol
                              <= Data(i).layout.sliceWidths[SubDocs[i].SliceOrder[k]]
                       /\ EmittedData(i, k, rq).Name =
                              elems[EmittedData(i, k, rq).GridCol].Name
                       /\ EmittedData(i, k, rq).CSSClass =
                              <<"emlang-", elems[EmittedData(i, k, rq).GridCol].Type>>
                /\ \A rq, rq2 \in Emitted(i, k) :
                       rq # rq2 =>
                           EmittedData(i, k, rq).GridCol # EmittedData(i, k, rq2).GridCol

\* C16 witness: a slice of two elements equal in everything but their
\* place, emitted in one row with the grid columns 1 and 2.
C16_Witness ==
    /\ Generated
    /\ \E i \in 1..Len(SubDocs) : \E k \in 1..Len(SubDocs[i].SliceOrder) :
           LET elems == SliceOf(SubDocs[i], k).Elements
           IN  /\ Len(elems) = 2
               /\ [elems[1] EXCEPT !.addr = 0] = [elems[2] EXCEPT !.addr = 0]
               /\ \E r \in ElementRows(i) :
                      /\ Len(Data(i).Rows[r].Slices[k].Elements) = 2
                      /\ Data(i).Rows[r].Slices[k].Elements[1].GridCol = 1
                      /\ Data(i).Rows[r].Slices[k].Elements[2].GridCol = 2

\* the text of a document index
Decimal(n) == <<"0", "1", "2", "3", "4", "5", "6", "7", "8", "9">>[n + 1]

C18_LayoutReadsOnly ==
    Accepted =>
        /\ ret.doc = doc
        /\ \A i \in 1..Len(SubDocs) : ~nilSlice(SubDocs[i])
        /\ \A n \in 1..Len(diagrams) :
               /\ ~diagrams[n].panic
               /\ Len(diagrams[n].Documents) = Len(SubDocs)
        /\ Len(diagrams) < MaxRuns /\ out = <<>> /\ lints = <<>> => ENABLED Generate

\* C18 witness: Generate ran on a Document with a SubDoc of two slices, one
\* of them with a test.
C18_Witness ==
    /\ Accepted /\ Len(diagrams) > 0
    /\ \E i \in 1..Len(SubDocs) :
           /\ Cardinality(Range(SubDocs[i].SliceOrder)) = 2
           /\ AnyTests(SubDocs[i])
           /\ Data(i).TotalColumns > 1


\* ------------------------------------------------------ formatter claims

\* Format ran on the returned Document; Parse ran on what it wrote
Formatted == Accepted /\ Len(out) > 0
Reparsed == Formatted /\ again # NoReturn

\* C19: formatting is a stable round trip.  For every source Parse accepts
\* and every key style, Parse on the text Format wrote succeeds, and Format
\* on the Document it returns writes exactly the same text.
C19_RoundTrip ==
    /\ Reparsed => ~again.isNil
    /\ Formatted /\ Len(out) = 2 => out[2] = out[1]

\* what C20 compares of an element, a list of elements, a test and a slice
Kept(e) == [Type |-> e.Type, Swimlane |-> e.Swimlane, Name |-> e.Name]

KeptList(elems) == [i \in 1..Len(elems) |-> Kept(elems[i])]

KeptTest(t) ==
    [Given |-> KeptList(t.Given), When |-> KeptList(t.When), Then |-> KeptList(t.Then)]

KeptSlice(x) ==
    [Elements |-> KeptList(x.Elements),
     Tests |-> [name \in DOMAIN x.Tests |-> KeptTest(x.Tests[name])]]

\* C20: formatting preserves the model.  For every source Parse accepts and
\* every key style, Parse on the text Format wrote returns a Document with
\* as many SubDocs as the original one, the same SliceOrder in each, and in
\* every slice a SliceOrder names the same Type, Swimlane and Name for every
\* element of its steps and of the sections of its tests.
C20_ModelPreserved ==
    Reparsed =>
        /\ ~again.isNil
        /\ Len(again.doc.SubDocs) = Len(SubDocs)
        /\ \A i \in 1..Len(SubDocs) :
               /\ again.doc.SubDocs[i].SliceOrder = SubDocs[i].SliceOrder
               /\ \A name \in Range(SubDocs[i].SliceOrder) :
                      KeptSlice(again.doc.SubDocs[i].Slices[name])
                          = KeptSlice(SubDocs[i].Slices[name])

\* the tests Format writes: SubDoc i, place k of its SliceOrder, test name
WrittenTests ==
    {q \in UNION {UNION {{<<i, k, t>> : t \in DOMAIN SliceOf(SubDocs[i], k).Tests} :
                     k \in 1..Len(SubDocs[i].SliceOrder)} : i \in 1..Len(SubDocs)} :
        TRUE}

TestAt(d, q) == d.SubDocs[q[1]].Slices[d.SubDocs[q[1]].SliceOrder[q[2]]].Tests[q[3]]

\* the lines of the formatted text that are the section key of a test
KeyLines(key) ==
    {l \in Range(textLines(out[1])) : l.ind = 8 /\ l.body = key \o <<":">>}

Flags(t) == <<t.HasGiven, t.HasWhen, t.HasThen>>

Emptiness(t) == <<Len(t.Given) = 0, Len(t.When) = 0, Len(t.Then) = 0>>

\* C21: 'key present but empty' and 'key absent' stay distinct through the
\* formatter.  The formatted text has one given (when, then) line for every
\* written test with HasGiven (HasWhen, HasThen) and no other, and Parse on
\* the formatted text returns a Document in which every written test has
\* the three flags and the emptiness of each section of the first parse.
C21_SectionKeysRoundTrip ==
    /\ Formatted =>
           /\ Cardinality(KeyLines(kGiven))
                  = Cardinality({q \in WrittenTests : TestAt(ret.doc, q).HasGiven})
           /\ Cardinality(KeyLines(kWhen))
                  = Cardinality({q \in WrittenTests : TestAt(ret.doc, q).HasWhen})
           /\ Cardinality(KeyLines(kThen))
                  = Cardinality({q \in WrittenTests : TestAt(ret.doc, q).HasThen})
    /\ Reparsed =>
           /\ ~again.isNil
           /\ \A q \in WrittenTests :
                  /\ Flags(TestAt(again.doc, q)) = Flags(TestAt(ret.doc, q))
                  /\ Emptiness(TestAt(again.doc, q)) = Emptiness(TestAt(ret.doc, q))


\* C24: the "empty name after swimlane" error is unreachable.  No error
\* Parse returns, for a source or for a formatted text, is that error; and
\* for a source of one element with value v and t = v trimmed, an empty t
\* is rejected as "element has no name", a t that ends with '/' as "element
\* name must not end with '/'", and every other t with a '/' is accepted
\* with a non-empty trimmed text after its first '/'.
C24_EmptyNameUnreachable ==
    /\ ret.err.msg # "element has empty name after swimlane"
    /\ again.err.msg # "element has empty name after swimlane"
    /\ Done /\ OneElementSource =>
           LET t == Strip(TheValue)
           IN  /\ t = <<>> => Rejected /\ ret.err.msg = "element has no name"
               /\ t # <<>> /\ t[Len(t)] = "/" =>
                      Rejected /\ ret.err.msg = "element name must not end with '/'"
               /\ t # <<>> /\ t[Len(t)] # "/" /\ HasSlash(t) =>
                      /\ Accepted
                      /\ Strip(SubSeq(t, FirstSlash(t) + 1, Len(t))) # <<>>

\* C24 witness: the source of the one element with the value "a/ a " was
\* accepted: the check was reached with a text after the '/' that has
\* spaces to trim, and passed.
C24_Witness ==
    /\ Accepted /\ OneElementSource
    /\ TheValue = <<"a", "/", " ", "a", " ">>
    /\ TheElement.Swimlane = <<"a">> /\ TheElement.Name = <<"a">>


\* C28: in every SubDoc of a returned Document, SliceOrder has no name
\* twice and its names are exactly the keys of SubDoc.Slices, also for a
\* slices mapping with a slice name more than once and for a root mapping
\* with the key slices more than once.
C28_SliceOrderIsKeySet ==
    Accepted =>
        \A i \in 1..Len(SubDocs) :
            /\ Cardinality(Range(SubDocs[i].SliceOrder)) = Len(SubDocs[i].SliceOrder)
            /\ Range(SubDocs[i].SliceOrder) = DOMAIN SubDocs[i].Slices


\* the element row an element belongs in: its class and its lane
RowClassOf(e) ==
    IF e.Type = ElementTrigger THEN rowTriggers
    ELSE IF e.Type \in {ElementCommand, ElementView} THEN rowMain
    ELSE rowEvents

RowLaneOf(e) == IF RowClassOf(e) = rowMain THEN <<>> ELSE e.Swimlane

\* the places <<row, place in the cell>> where the p-th element of the k-th
\* entry of SliceOrder is emitted
PlacesOf(i, k, p) == {rq \in Emitted(i, k) : EmittedData(i, k, rq).GridCol = p}

\* C29: the row grouping partitions the step elements.  For every SubDoc
\* of a returned Document that Generate laid out: every row has one cell
\* per entry of SliceOrder; every element of the slice of an entry is
\* emitted in the cell of that entry in exactly one place of one row, the
\* trigger row of its lane for a Trigger, the main row for a Command or a
\* View, the event row of its lane for an Event or an Exception; and every
\* element emitted in a cell is an element of the slice of its entry.
C29_RowsPartitionSteps ==
    Generated =>
        \A i \in 1..Len(SubDocs) :
            /\ \A r \in 1..Len(Data(i).Rows) :
                   Len(Data(i).Rows[r].Slices) = Len(SubDocs[i].SliceOrder)
            /\ \A k \in 1..Len(SubDocs[i].SliceOrder) :
                   LET elems == SliceOf(SubDocs[i], k).Elements
                   IN  /\ \A p \in 1..Len(elems) :
                              /\ Cardinality(PlacesOf(i, k, p)) = 1
                              /\ \A rq \in PlacesOf(i, k, p) :
                                     /\ Data(i).Rows[rq[1]].Class = RowClassOf(elems[p])
                                     /\ Data(i).Rows[rq[1]].Swimlane = RowLaneOf(elems[p])
                                     /\ EmittedData(i, k, rq).Name = elems[p].Name
                                     /\ EmittedData(i, k, rq).CSSClass
                                            = <<"emlang-", elems[p].Type>>
                       /\ \A r \in ElementRows(i) :
                              /\ Len(Data(i).Rows[r].Slices[k].Elements) <= Len(elems)
                              /\ \A q \in 1..Len(Data(i).Rows[r].Slices[k].Elements) :
                                     Data(i).Rows[r].Slices[k].Elements[q].GridCol
                                         \in 1..Len(elems)

\* C29 witness: a SubDoc of two slices laid out with two trigger rows, a
\* main row and an event row, with a slice that has elements in two rows.
C29_Witness ==
    /\ Generated
    /\ \E i \in 1..Len(SubDocs) :
           /\ Len(SubDocs[i].SliceOrder) = 2
           /\ Cardinality({r \in ElementRows(i) : Data(i).Rows[r].Class = rowTriggers}) = 2
           /\ \E r \in ElementRows(i) : Data(i).Rows[r].Class = rowMain
           /\ \E r \in ElementRows(i) : Data(i).Rows[r].Class = rowEvents
           /\ \E k \in 1..2 :
                  Cardinality({rq[1] : rq \in Emitted(i, k)}) = 2


\* --------------------------------------------------------- linter claims

\* Lint ran on the returned Document; the issues it returned; the calls of
\* lintSlice it made, <<SubDoc, place in SliceOrder>>, and their slices
Linted == Accepted /\ Len(lints) = 1
Issues == lints[1].issues
LintedCalls == Range(lintCalls(ret.doc))
LintedSlice(c) == SliceOf(SubDocs[c[1]], c[2])

Dangling(elems, p) ==
    /\ elems[p].Type = ElementCommand
    /\ ~\E j \in (p + 1)..Len(elems) :
           /\ elems[j].Type \in {ElementEvent, ElementException}
           /\ \A m \in (p + 1)..(j - 1) : elems[m].Type # ElementCommand

\* the p-th element of elems is an Exception with no Command before it
Orphan(elems, p) ==
    /\ elems[p].Type = ElementException
    /\ \A j \in 1..(p - 1) : elems[j].Type # ElementCommand

\* the steps Lint looked at: <<call of lintSlice, place in the slice>>
LintedSteps ==
    UNION {{<<c, p>> : p \in 1..Len(LintedSlice(c).Elements)} : c \in LintedCalls}

StepsOf(c) == LintedSlice(c).Elements

IssuesOf(rule) == {n \in 1..Len(Issues) : Issues[n].Rule = rule}

\* C23: with no rule ignored, Lint returns one command-without-event
\* issue, a warning at the line of the command, for every Command of a
\* linted slice that is followed by another Command or by the end of the
\* slice before any Event or Exception, Triggers and Views in between
\* skipped, and no other; and one orphan-exception issue, a warning at the
\* line of the exception, for every Exception with no Command before it in
\* its slice, and no other.
C23_CommandAndExceptionRules ==
    Linted /\ lints[1].IgnoreRules = {} =>
        LET dangling == {s \in LintedSteps : Dangling(StepsOf(s[1]), s[2])}
            orphans == {s \in LintedSteps : Orphan(StepsOf(s[1]), s[2])}
        IN  /\ Cardinality(IssuesOf("command-without-event")) = Cardinality(dangling)
            /\ \A s \in dangling :
                   \E n \in IssuesOf("command-without-event") :
                       Issues[n].Line = StepsOf(s[1])[s[2]].Line
            /\ \A n \in IssuesOf("command-without-event") :
                   /\ Issues[n].Severity = SeverityWarning
                   /\ \E s \in dangling : Issues[n].Line = StepsOf(s[1])[s[2]].Line
            /\ Cardinality(IssuesOf("orphan-exception")) = Cardinality(orphans)
            /\ \A s \in orphans :
                   \E n \in IssuesOf("orphan-exception") :
                       Issues[n].Line = StepsOf(s[1])[s[2]].Line
            /\ \A n \in IssuesOf("orphan-exception") :
                   /\ Issues[n].Severity = SeverityWarning
                   /\ \E s \in orphans : Issues[n].Line = StepsOf(s[1])[s[2]].Line

\* C23 witness: Lint ran, with no rule ignored, on the slice of a Command,
\* a View and an Event, and returned no issue: the View was skipped.
C23_Witness ==
    /\ Linted /\ lints[1].IgnoreRules = {}
    /\ Issues = <<>>
    /\ \E c \in LintedCalls :
           /\ Len(StepsOf(c)) = 3
           /\ StepsOf(c)[1].Type = ElementCommand
           /\ StepsOf(c)[2].Type = ElementView
           /\ StepsOf(c)[3].Type = ElementEvent


\* ------------------------------------------------------------------ C25

\* the watcher's call of generate returns an error
FailedRegeneration ==
    watcher.pc = "generate" /\ watcher'.pc = "select"

\* C25: a failed regeneration changes nothing. The step of the watcher in
\* which generate fails on a file whose modification time was found later
\* than lastMod leaves the served HTML, the served hash and lastMod as they
\* were, so the page served is still the last one generated; lastMod is
\* still earlier than the file's modification time, and a tick that finds a
\* modification time later than lastMod calls generate again.
C25_FailedRegenerationChangesNothing ==
    [][/\ FailedRegeneration =>
            /\ watcher.info > state.lastMod
            /\ state' = state
            /\ file'.mod > state'.lastMod
       /\ (watcher.pc = "check" /\ watcher'.pc # "check") =>
            (watcher'.pc = "generate" <=> watcher.info > state.lastMod)]_vars

\* generate has failed on a newer file and the watcher waits for the next
\* tick, a page being served
C25_Witness ==
    /\ watcher.pc = "select"
    /\ watcher.info > state.lastMod
    /\ pageOf[file.content].err # ""
    /\ state.html # <<>> /\ state.hash = hashBytes(state.html)


\* ------------------------------------------------------------------ C27

\* s.update(html) has been called once
Updated ==
    \/ start.pc \in {"stat", "serving"}
    \/ start.pc = "exited" /\ start.html # <<>>

\* state.update is between its Lock and its Unlock
Updating == watcher.pc \in {"html", "hash", "unlock"}

\* C27: the state keeps its HTML and its hash consistent. After the first
\* update, whenever no update holds the lock the stored hash is the digest
\* of the stored HTML; a reader inside getHTML or getHash runs while no
\* update is between its two assignments, so it reads a field of a state
\* whose hash is the digest of its HTML; and an update that has taken the
\* lock will store a hash equal to the stored one exactly when its HTML is
\* the stored HTML.
C27_HashMatchesHTML ==
    /\ Updating <=> mu.writer
    /\ (Updated /\ ~Updating) => state.hash = hashBytes(state.html)
    /\ reader.pc \in {"getHTML", "getHash"} =>
           /\ mu.readers = 1 /\ ~mu.writer
           /\ state.hash = hashBytes(state.html)
    /\ mu.readers = 0 \/ ~mu.writer
    /\ watcher.pc = "html" =>
           (hashBytes(watcher.newHTML) = state.hash <=> watcher.newHTML = state.html)
    /\ watcher.pc = "unlock" => state.hash = hashBytes(state.html)

\* an update of a different page has stored its HTML and not yet its hash,
\* after a reader was answered and while it asks again
C27_Witness ==
    /\ watcher.pc = "hash"
    /\ state.hash # hashBytes(state.html)
    /\ reader.pc = "idle" /\ reader.resp # <<>>
    /\ ~ENABLED Request


\* ------------------------------------------------------------------ C26

\* the file is one that generate accepts
ValidFile == pageOf[file.content].err = ""

\* the server serves the page of the file
Serves ==
    /\ state.html = pageOf[file.content].html
    /\ state.hash = hashBytes(pageOf[file.content].html)

\* the server runs
Serving == start.pc = "serving" /\ ~stopped

\* a step that changes the served HTML or the served hash
ServedChanges == state'.html # state.html \/ state'.hash # state.hash

\* C26: a file whose modification time is later than lastMod, and which
\* then stays unchanged and valid, is eventually served: the HTML is the
\* page generated from it and the hash is that page's hash.  And the served
\* HTML and hash change only in the update of a watcher whose tick found a
\* modification time later than lastMod.
C26_ChangedFileIsServed ==
    /\ (file.final /\ file.mod > state.lastMod /\ ValidFile /\ Serving)
           ~> (~Serving \/ Serves)
    /\ [][/\ (ServedChanges /\ start.pc = "serving") =>
                (watcher.pc \in {"html", "hash"} /\ watcher.info = state.lastMod)
          /\ (watcher.pc # "generate" /\ watcher'.pc = "generate") =>
                watcher.info > state.lastMod]_vars


\* ------------------------------------------------------------------ C30

\* the lint list of the Document of request i, linted alone
OwnLint(i) ==
    lintItems(Lint(NewLinter(lint.IgnoreRules), reqs[i].doc).issues)

\* request i has been answered with a page
Rendered(i) == reqs[i].pc = "done" /\ reqs[i].resp.Error = NoErr

\* C30: the lint results are isolated per request.  The lint list of every
\* response of /render is the list of the issues of the Document of that
\* request, none lost and none of the other request, whatever the
\* interleaving of the two calls of Lint on the shared Linter.
C30_LintIsolatedPerRequest ==
    \A i, j \in 1..MaxReqs :
        (Rendered(i) /\ reqs[i].body # reqs[j].body) =>
            reqs[i].resp.Lint = OwnLint(i)

=============================================================================
